---- MODULE Spec2Model ----
(***************************************************************************)
(* Reavix request-serving core: route table + trie router, the request     *)
(* pipeline (middleware, plugin hooks, route handler) and the response     *)
(* framer, modelled from backend/src/libreavix.c, backend/include/         *)
(* libreavix.c and the stand-alone router (router_add / router_match).     *)
(*                                                                         *)
(* Strings are sequences of one-character strings, so that strtok_r,       *)
(* strcmp and the segment[0] == ':' test are computed as the code does.    *)
(* Path names are abbreviated: u = users, m = me, p = posts, i = id.       *)
(***************************************************************************)
EXTENDS Integers, Sequences, FiniteSets, TLC

VARIABLES
    routes,          \* reavix_state.routes[0 .. route_count-1]
    route_count,     \* reavix_state.route_count
    route_capacity,  \* reavix_state.route_capacity
    root_node,       \* reavix_state.root_node (the trie, nested by value)
    fault,           \* the process died on a NULL children array
    alloc_failed,    \* an allocation has returned NULL in this run
    last,            \* the last call on the routing API and what it returned
    middleware,      \* reavix_state.middleware[0 .. middleware_count-1]
    plugins,         \* reavix_state.plugins[0 .. plugin_count-1]
    clients,         \* reavix_state.clients[0 .. client_count-1]
    client_capacity, \* reavix_state.client_capacity
    linked,          \* which definition of res_send_json the build links
    pc,              \* where handle_request stands for the request in hand
    idx,             \* the loop index i of handle_request, counted from 1
    req,             \* the Request in hand
    res,             \* the Response in hand
    calls,           \* the callbacks handle_request has invoked, in order
    wire,            \* the uv_write requests issued for this response
    arena,           \* the IPCArena: write_offset, read_offset, buffer
    writers,         \* each thread's position and locals in ipc_arena_allocate
    regions,         \* the calls of ipc_arena_allocate that returned, in order
    reads,           \* what the last reader of an arena message found
    view,            \* IPCManager.view: the lock, request and response words
    callers,         \* each caller's position in withSharedBuffer / readDir
    mutex,           \* the router mutex: the thread that holds it, or NULL
    threads,         \* each dispatching thread: the steps left and its trace
    sdk              \* the browser SDK's WebSocketClient

routing_vars == <<routes, route_count, route_capacity, root_node, fault,
                  alloc_failed, last>>

registry_vars == <<middleware, plugins, clients, client_capacity>>

request_vars == <<pc, idx, req, res, calls, wire>>

ipc_vars == <<arena, writers, regions, reads>>

sync_vars == <<view, callers, mutex, threads>>

----------------------------------------------------------------------------
(* Bounds of the model and program constants *)

MaxRoutes == 2        \* the largest max_routes handed to reavix_init
MAX_PARAMS == 10

NULL == "NULL"

Methods == {"GET", "POST"}
Handlers == {"h1", "h2"}

\* /users/:id, /users/me, /users/:id/posts
PathUsersId == <<"/", "u", "/", ":", "i">>
PathUsersMe == <<"/", "u", "/", "m">>
PathUsersIdPosts == <<"/", "u", "/", ":", "i", "/", "p">>

Patterns == {PathUsersId, PathUsersMe, PathUsersIdPosts}

\* /users/42, /users/me, /users/42/posts, /users/me/posts, /users, /users/:id
ReqUsers42 == <<"/", "u", "/", "4">>
ReqUsers42Posts == <<"/", "u", "/", "4", "/", "p">>
ReqUsersMePosts == <<"/", "u", "/", "m", "/", "p">>
ReqUsers == <<"/", "u">>

RequestPaths == {ReqUsers42, PathUsersMe, ReqUsers42Posts, ReqUsersMePosts,
                 ReqUsers, PathUsersId}

----------------------------------------------------------------------------
(* strtok_r(path, "/"): the segments of a path, empty segments skipped *)

RECURSIVE SkipDelims(_)
SkipDelims(s) ==
    IF s # <<>> /\ Head(s) = "/" THEN SkipDelims(Tail(s)) ELSE s

RECURSIVE TakeToken(_)
TakeToken(s) ==
    IF s = <<>> \/ Head(s) = "/" THEN <<>>
    ELSE <<Head(s)>> \o TakeToken(Tail(s))

RECURSIVE strtok_r(_)
strtok_r(s) ==
    LET t == SkipDelims(s) IN
    IF t = <<>> THEN <<>>
    ELSE LET tok == TakeToken(t) IN
         <<tok>> \o strtok_r(SubSeq(t, Len(tok) + 1, Len(t)))

\* segment[0] == ':'
IsParamSegment(segment) == segment[1] = ":"

----------------------------------------------------------------------------
(* TrieNode *)

NoRateLimit == [requests_per_minute |-> 0, burst_limit |-> 0, enabled |-> FALSE]

\* create_trie_node: calloc + strdup(segment)
create_trie_node(segment) ==
    [segment |-> segment, handler |-> NULL, children |-> <<>>,
     param_child |-> <<>>, child_count |-> 0, rate_limit |-> NoRateLimit]

\* The static root as memset / reavix_init leave it: segment "", no children
ZeroRoot == create_trie_node(<<>>)

\* Index of the first static child whose segment equals `segment` (strcmp),
\* scanning children[0 .. child_count-1]; 0 when none.
FindChild(current, segment) ==
    LET n == IF current.child_count < Len(current.children)
             THEN current.child_count ELSE Len(current.children)
        hits == {i \in 1..n : current.children[i].segment = segment}
    IN IF hits = {} THEN 0 ELSE CHOOSE i \in hits : \A j \in hits : i <= j

\* The scan runs past the allocated array (children == NULL with
\* child_count > 0) without having found the segment: a NULL dereference.
ScanFaults(current, segment) ==
    FindChild(current, segment) = 0 /\ current.child_count > Len(current.children)

Dec(fail) == IF fail = 0 THEN 0 ELSE fail - 1

\* The allocations one trie_insert of `segs` can make: create_trie_node for
\* every segment, realloc of the children array for every static one.
RECURSIVE SegmentAllocs(_)
SegmentAllocs(segs) ==
    IF segs = <<>> THEN 0
    ELSE (IF IsParamSegment(Head(segs)) THEN 1 ELSE 2) + SegmentAllocs(Tail(segs))

\* strdup(path) first, then the segments' allocations
AllocPoints(path) == 1 + SegmentAllocs(strtok_r(path))

\* trie_insert's loop from node `current` over the remaining segments.
\* fail = k > 0: the k-th allocation from here on returns NULL.
RECURSIVE InsertWalk(_, _, _, _)
InsertWalk(current, segs, handler, fail) ==
    IF segs = <<>>
    THEN [node |-> [current EXCEPT !.handler = handler], ok |-> TRUE, fault |-> FALSE]
    ELSE
    LET segment == Head(segs)
        is_param == IsParamSegment(segment)
        found == IF is_param THEN 0 ELSE FindChild(current, segment)
    IN
    IF ~is_param /\ ScanFaults(current, segment)
    THEN [node |-> current, ok |-> FALSE, fault |-> TRUE]
    ELSE IF found # 0
    THEN LET r == InsertWalk(current.children[found], Tail(segs), handler, fail)
         IN [node |-> [current EXCEPT !.children[found] = r.node],
             ok |-> r.ok, fault |-> r.fault]
    ELSE IF fail = 1                             \* create_trie_node returned NULL
    THEN [node |-> current, ok |-> FALSE, fault |-> FALSE]
    ELSE IF is_param
    THEN LET r == InsertWalk(create_trie_node(segment), Tail(segs), handler, Dec(fail))
         IN [node |-> [current EXCEPT !.param_child = <<r.node>>],
             ok |-> r.ok, fault |-> r.fault]
    ELSE IF Dec(fail) = 1                        \* realloc returned NULL
    THEN [node |-> [current EXCEPT !.child_count = @ + 1, !.children = <<>>],
          ok |-> FALSE, fault |-> FALSE]
    ELSE LET r == InsertWalk(create_trie_node(segment), Tail(segs), handler,
                             Dec(Dec(fail)))
         IN [node |-> [current EXCEPT !.child_count = @ + 1,
                                      !.children = Append(@, r.node)],
             ok |-> r.ok, fault |-> r.fault]

\* trie_insert(root, path, handler); fail = 1 is strdup(path) returning NULL
trie_insert(root, path, handler, fail) ==
    IF fail = 1
    THEN [node |-> root, ok |-> FALSE, fault |-> FALSE]
    ELSE InsertWalk(root, strtok_r(path), handler, Dec(fail))

\* A matcher that tries the parameter child before the static children
MatchChoiceParamFirst(current, segment, param_index) ==
    IF current.param_child # <<>> /\ param_index < MAX_PARAMS THEN "param"
    ELSE IF FindChild(current, segment) # 0 THEN "static"
    ELSE "none"

\* One iteration of trie_match's loop at node `current`: which child the
\* segment descends into. Static children are scanned only when the request
\* segment does not itself start with ':'; the parameter child is taken only
\* when it does.
MatchChoice(current, segment, param_index) ==
    LET is_param == IsParamSegment(segment)
        found == IF is_param THEN 0 ELSE FindChild(current, segment)
    IN
    IF ~is_param /\ ScanFaults(current, segment) THEN "fault"
    ELSE IF found # 0 THEN "static"
    ELSE IF is_param /\ current.param_child # <<>> /\ param_index < MAX_PARAMS
    THEN "param"
    ELSE "none"

\* trie_match's loop from node `current`; params are the captures so far,
\* steps the nodes visited with the choice made at each.
RECURSIVE MatchWalk(_, _, _, _)
MatchWalk(current, segs, params, steps) ==
    IF segs = <<>>
    THEN [matched |-> current.handler # NULL, handler |-> current.handler,
          params |-> params, fault |-> FALSE, steps |-> steps]
    ELSE
    LET segment == Head(segs)
        choice == MatchChoice(current, segment, Len(params))
        here == Append(steps, [node |-> current, segment |-> segment,
                               choice |-> choice])
    IN
    IF choice = "fault"
    THEN [matched |-> FALSE, handler |-> NULL, params |-> <<>>, fault |-> TRUE,
          steps |-> here]
    ELSE IF choice = "static"
    THEN MatchWalk(current.children[FindChild(current, segment)], Tail(segs),
                   params, here)
    ELSE IF choice = "param"
    THEN MatchWalk(current.param_child[1], Tail(segs),
                   Append(params, [name |-> Tail(current.param_child[1].segment),
                                   value |-> segment]), here)
    ELSE [matched |-> FALSE, handler |-> NULL, params |-> <<>>, fault |-> FALSE,
          steps |-> here]

\* trie_match(root, path, params, &param_count, &out_handler); on failure
\* the out-parameters keep the caller's initial values (0 params, NULL).
trie_match(root, path) == MatchWalk(root, strtok_r(path), <<>>, <<>>)

----------------------------------------------------------------------------
(* Route table *)

RouteEntry(method, path, handler) ==
    [method |-> method, path |-> path, handler |-> handler]

\* A duplicate scan that stops one entry short of the table's end
IsDuplicateButLast(method, path) ==
    \E i \in 1..(route_count - 1) :
        routes[i].method = method /\ routes[i].path = path

\* The duplicate scan of reavix_route over routes[0 .. route_count-1]
IsDuplicate(method, path) ==
    \E i \in 1..route_count : routes[i].method = method /\ routes[i].path = path

\* What is observed of the last call: its name and return value, why it
\* failed, and for a registration whether the pair was in the table before
\* the call and whether the call changed the table or the trie.
NoCall == [op |-> "none", ret |-> FALSE, why |-> "", in_table |-> FALSE,
           changed |-> FALSE, path |-> <<>>, handler |-> NULL, params |-> <<>>]

RoutingInit ==
    /\ routes = <<>>
    /\ route_count = 0
    /\ route_capacity = 0
    /\ root_node = ZeroRoot
    /\ fault = FALSE
    /\ alloc_failed = FALSE
    /\ last = NoCall

\* reavix_init(max_routes): no once-only guard, memset clears the whole of
\* reavix_state, the middleware, plugin and client arrays included
reavix_init(max_routes) ==
    /\ ~fault
    /\ pc = "idle"
    /\ IF max_routes = 0
       THEN /\ last' = [NoCall EXCEPT !.op = "reavix_init", !.why = "zero"]
            /\ UNCHANGED <<routes, route_count, route_capacity, root_node, fault,
                           alloc_failed, registry_vars>>
       ELSE /\ routes' = <<>>
            /\ route_count' = 0
            /\ route_capacity' = max_routes
            /\ root_node' = ZeroRoot
            /\ middleware' = <<>>
            /\ plugins' = <<>>
            /\ clients' = <<>>
            /\ client_capacity' = 0
            /\ last' = [NoCall EXCEPT !.op = "reavix_init", !.ret = TRUE]
            /\ UNCHANGED <<fault, alloc_failed>>
    /\ UNCHANGED <<linked, sdk, ipc_vars, sync_vars, request_vars>>

\* The body of reavix_route(method, path, handler), under reavix_state.mutex
\* throughout: the table, the trie and the return value it leaves.
RouteOutcome(method, path, handler, fail) ==
    LET same == [routes |-> routes, route_count |-> route_count,
                 root_node |-> root_node, fault |-> FALSE, ret |-> FALSE, why |-> ""]
    IN
    IF method = NULL \/ path = NULL \/ handler = NULL
    THEN [same EXCEPT !.why = "null"]
    ELSE IF route_count >= route_capacity
    THEN [same EXCEPT !.why = "capacity"]
    ELSE IF IsDuplicate(method, path)
    THEN [same EXCEPT !.why = "duplicate"]
    ELSE LET r == trie_insert(root_node, path, handler, fail) IN
         [routes |-> Append(routes, RouteEntry(method, path, handler)),
          route_count |-> route_count + 1,
          root_node |-> r.node, fault |-> r.fault, ret |-> r.ok,
          why |-> IF r.ok THEN "" ELSE "alloc"]

reavix_route(method, path, handler, fail) ==
    /\ ~fault
    /\ pc = "idle"
    /\ \E r \in {RouteOutcome(method, path, handler, fail)} :
       /\ routes' = r.routes
       /\ route_count' = r.route_count
       /\ root_node' = r.root_node
       /\ fault' = r.fault
       /\ last' = [NoCall EXCEPT
                     !.op = "reavix_route", !.ret = r.ret, !.why = r.why,
                     !.in_table = \E i \in 1..route_count :
                                     /\ routes[i].method = method
                                     /\ routes[i].path = path,
                     !.changed = <<r.routes, r.route_count, r.root_node>>
                                 # <<routes, route_count, root_node>>]
       /\ alloc_failed' = (alloc_failed \/ r.why = "alloc")
    /\ UNCHANGED <<route_capacity, registry_vars, linked, sdk, ipc_vars, sync_vars, request_vars>>

\* The route lookup of handle_request: trie_match under the mutex
lookup(path) ==
    /\ ~fault
    /\ \E r \in {trie_match(root_node, path)} :
       /\ fault' = r.fault
       /\ last' = [NoCall EXCEPT !.op = "trie_match", !.ret = r.matched,
                                 !.path = path, !.handler = r.handler,
                                 !.params = r.params]
    /\ UNCHANGED <<routes, route_count, route_capacity, root_node, alloc_failed,
                   registry_vars, linked, sdk, ipc_vars, sync_vars, request_vars>>

\* A registration whose allocations all succeed
RouteNoFail ==
    \E m \in Methods, p \in Patterns, h \in Handlers : reavix_route(m, p, h, 0)

\* A registration in which one allocation of trie_insert returns NULL; a run
\* injects at most one such failure.
RouteMayFail ==
    /\ ~alloc_failed
    /\ \E m \in Methods, p \in Patterns, h \in Handlers :
          \E f \in 1..AllocPoints(p) : reavix_route(m, p, h, f)

RouteNullHandler == \E p \in Patterns : reavix_route("GET", p, NULL, 0)

InitCall == \E n \in {0, 1, MaxRoutes} : reavix_init(n)

LookupCall == \E p \in RequestPaths : lookup(p)

----------------------------------------------------------------------------
(* Response: status, headers, body, and the bytes send_response frames *)

MAX_PLUGINS == 20
MAX_MIDDLEWARE == 10
HEADER_BUF == 4096    \* char headers[4096] of send_response
JSON_BUF == 512       \* char json[512] of res_send_error

MaxMiddleware == 2    \* the most middleware one run registers
MaxPlugins == 2       \* the most plugins one run registers

Streams == {"c1"}

\* The bytes of a buffer are a sequence of text pieces; its length in bytes
RECURSIVE PartsLen(_)
PartsLen(parts) ==
    IF parts = <<>> THEN 0 ELSE Len(Head(parts)) + PartsLen(Tail(parts))

\* What is left of a buffer whose storage has gone out of scope or whose
\* length runs past what was written into it
Garbage == <<"?">>

\* snprintf(buf, size, ...): at most size-1 bytes of the formatted text are
\* stored; the pieces that fit whole are kept, the cut one is shown as "~"
RECURSIVE snprintf(_, _)
snprintf(parts, size) ==
    IF parts = <<>> \/ size <= 1 THEN <<>>
    ELSE IF Len(Head(parts)) < size
    THEN <<Head(parts)>> \o snprintf(Tail(parts), size - Len(Head(parts)))
    ELSE <<"~">>

get_status_text(status_code) ==
    CASE status_code = 200 -> "OK"
      [] status_code = 201 -> "Created"
      [] status_code = 204 -> "No Content"
      [] status_code = 400 -> "Bad Request"
      [] status_code = 401 -> "Unauthorized"
      [] status_code = 403 -> "Forbidden"
      [] status_code = 404 -> "Not Found"
      [] status_code = 500 -> "Internal Server Error"
      [] status_code = 503 -> "Service Unavailable"
      [] OTHER -> "Unknown"

\* "HTTP/1.1 %d %s\r\n"
StatusLine(status_code) ==
    <<"HTTP/1.1 ", ToString(status_code), " ", get_status_text(status_code), "\r\n">>

\* "%s: %s\r\n"
HeaderLine(h) == <<h.name, ": ", h.value, "\r\n">>

\* "Content-Length: %zu\r\n\r\n"
LengthLine(content_length) ==
    <<"Content-Length: ", ToString(content_length), "\r\n\r\n">>

\* A Response as on_new_connection leaves it (memset to 0) for a connection
NewResponse(client) ==
    [status_code |-> 0, content |-> <<>>, content_length |-> 0, headers |-> <<>>,
     client |-> client, headers_sent |-> FALSE, compression |-> "none"]

\* find_client_context: index of the first context of that stream, 0 if none
find_client_context(stream) ==
    LET hits == {i \in 1..Len(clients) : clients[i].stream = stream}
    IN IF hits = {} THEN 0 ELSE CHOOSE i \in hits : \A j \in hits : i <= j

\* res_set_header: the pair is appended, whatever the response already holds
res_set_header(response, name, value) ==
    [response EXCEPT !.headers = Append(@, [name |-> name, value |-> value])]

\* The snprintf calls of send_response into headers[4096], line after line:
\* headers_len adds up what each call returns, which is the full length of
\* the line whether or not it fitted.
RECURSIVE FormatHeaders(_, _, _)
FormatHeaders(lines, buf, headers_len) ==
    IF lines = <<>> THEN [buf |-> buf, headers_len |-> headers_len]
    ELSE FormatHeaders(Tail(lines),
                       IF headers_len < HEADER_BUF
                       THEN buf \o snprintf(Head(lines), HEADER_BUF - headers_len)
                       ELSE Garbage,
                       headers_len + PartsLen(Head(lines)))

\* The lines send_response formats for a response
HeadLines(response) ==
    <<StatusLine(response.status_code)>>
    \o [i \in 1..Len(response.headers) |-> HeaderLine(response.headers[i])]
    \o <<LengthLine(response.content_length)>>

RECURSIVE Flatten(_)
Flatten(lines) == IF lines = <<>> THEN <<>> ELSE Head(lines) \o Flatten(Tail(lines))

\* send_response(res). stack_intact: the bytes of the local array `headers`
\* are still there when libuv reads them, which it does after send_response
\* has returned whenever the socket did not take them at once.
\* Gives the response as left and the uv_write requests issued.
send_response(response, stack_intact) ==
    IF response.headers_sent \/ find_client_context(response.client) = 0
    THEN [res |-> response, writes |-> <<>>]
    ELSE
    LET f == FormatHeaders(HeadLines(response), <<>>, 0)
        whole == f.buf = Flatten(HeadLines(response))
        head == [base |-> "headers", len |-> f.headers_len, image |-> f.buf,
                 bytes |-> IF whole /\ stack_intact THEN f.buf ELSE Garbage]
        body == [base |-> "content", len |-> response.content_length,
                 image |-> response.content, bytes |-> response.content]
    IN [res |-> [response EXCEPT !.headers_sent = TRUE],
        writes |-> IF response.content_length > 0 /\ response.content # <<>>
                   THEN <<head, body>> ELSE <<head>>]

\* compress_data: the deflated bytes, shown as the input wrapped in its coding
compress_data(input, type) == <<type \o "(">> \o input \o <<")">>

CompressionEncoding(type) ==
    CASE type = "gzip" -> "gzip"
      [] type = "brotli" -> "br"
      [] type = "deflate" -> "deflate"
      [] OTHER -> ""

\* compress_data's return value and output: false for COMPRESSION_NONE and
\* when malloc, deflateInit or deflate fails (deflate_ok FALSE)
compress_result(input, type, deflate_ok) ==
    IF type = "none" \/ ~deflate_ok THEN [ok |-> FALSE, output |-> <<>>]
    ELSE [ok |-> TRUE, output |-> compress_data(input, type)]

\* res_set_header with the result of its two reallocs: when one returns NULL
\* the pair is not added
res_set_header_alloc(response, name, value, realloc_ok) ==
    IF realloc_ok THEN res_set_header(response, name, value) ELSE response

\* res_send_json of backend/src/libreavix.c: body, Content-Type, compression,
\* then send_response; the status code is left as it is. deflate_ok is what
\* compress_data meets, realloc_ok what the res_set_header of
\* Content-Encoding meets.
res_send_json_with(response, json, stack_intact, deflate_ok, realloc_ok) ==
    LET r1 == res_set_header([response EXCEPT !.content = json,
                                              !.content_length = PartsLen(json)],
                             "Content-Type", "application/json")
        c == compress_result(r1.content, r1.compression, deflate_ok)
        r2 == IF r1.compression = "none" \/ ~c.ok THEN r1
              ELSE res_set_header_alloc(
                       [r1 EXCEPT !.content = c.output,
                                  !.content_length = PartsLen(c.output)],
                       "Content-Encoding", CompressionEncoding(r1.compression),
                       realloc_ok)
    IN send_response(r2, stack_intact)

\* The call in which compression and allocation succeed
res_send_json_src(response, json, stack_intact) ==
    res_send_json_with(response, json, stack_intact, TRUE, TRUE)

\* res_send_json of backend/include/libreavix.c: status 200, body,
\* Content-Type; nothing is sent
res_send_json_include(response, json_body) ==
    [res |-> res_set_header([response EXCEPT !.status_code = 200,
                                             !.content = json_body,
                                             !.content_length = PartsLen(json_body)],
                            "Content-Type", "application/json"),
     writes |-> <<>>]

res_send_json(response, json, stack_intact) ==
    IF linked = "src" THEN res_send_json_src(response, json, stack_intact)
    ELSE res_send_json_include(response, json)

\* "{\"error\":{\"code\":%d,\"message\":\"%s\"}}"
ErrorJson(code, message) ==
    <<"{", "\"error\"", ":", "{", "\"code\"", ":", ToString(code), ",",
      "\"message\"", ":", "\"" \o message \o "\"", "}", "}">>

\* res_send_error: the code is stored, then the body goes through res_send_json
res_send_error(response, code, message, stack_intact) ==
    res_send_json([response EXCEPT !.status_code = code],
                  snprintf(ErrorJson(code, message), JSON_BUF), stack_intact)

----------------------------------------------------------------------------
(* Registration of middleware, plugins and connections *)

\* Middleware functions and plugins an application registers
MiddlewareOrder == <<"m1", "m2", "m3">>
MiddlewareFns == {MiddlewareOrder[i] : i \in 1..Len(MiddlewareOrder)}

Plugin(name, pre_handler, post_handler) ==
    [name |-> name, init |-> NULL, pre_handler |-> pre_handler,
     post_handler |-> post_handler]

PluginSet == {Plugin("both", "pre_b", "post_b"), Plugin("pre", "pre_p", NULL),
              Plugin("post", NULL, "post_p")}

\* reavix_use(middleware)
reavix_use(fn) ==
    /\ pc = "idle"
    /\ Len(middleware) < MaxMiddleware
    /\ middleware' = IF Len(middleware) >= MAX_MIDDLEWARE THEN middleware
                     ELSE Append(middleware, fn)
    /\ UNCHANGED <<routing_vars, plugins, clients, client_capacity, linked, sdk, ipc_vars, sync_vars,
                   request_vars>>

\* reavix_register_plugin(plugin); plugin.init, when set, runs under the mutex
reavix_register_plugin(plugin) ==
    /\ pc = "idle"
    /\ Len(plugins) < MaxPlugins
    /\ plugins' = IF Len(plugins) >= MAX_PLUGINS THEN plugins
                  ELSE Append(plugins, plugin)
    /\ UNCHANGED <<routing_vars, middleware, clients, client_capacity, linked, sdk, ipc_vars, sync_vars,
                   request_vars>>

\* on_connection: the accepted stream, a new one, gets a ClientContext
on_connection(stream) ==
    /\ pc = "idle"
    /\ find_client_context(stream) = 0
    /\ client_capacity' = IF client_capacity = 0 THEN 10
                     ELSE IF Len(clients) >= client_capacity
                          THEN client_capacity * 2 ELSE client_capacity
    /\ clients' = Append(clients, [stream |-> stream, is_websocket |-> FALSE,
                                   websocket_connected |-> FALSE])
    /\ UNCHANGED <<routing_vars, middleware, plugins, linked, sdk, ipc_vars, sync_vars, request_vars>>

----------------------------------------------------------------------------
(* handle_request, one callback at a time *)

\* What a callback does with the response, as a list of steps it takes:
\* store a status code, add a header, send a JSON body.
Pass == <<>>
SendOk == <<"status", "header", "send">>

Bodies == [status |-> 200, name |-> "X-Tag", value |-> "t", json |-> <<"{", "}">>]

RECURSIVE RunScript(_, _, _)
RunScript(script, out, stack_intact) ==
    IF script = <<>> THEN out
    ELSE RunScript(Tail(script),
             CASE Head(script) = "status" ->
                    [out EXCEPT !.res.status_code = Bodies.status]
               [] Head(script) = "header" ->
                    [out EXCEPT !.res = res_set_header(@, Bodies.name, Bodies.value)]
               [] Head(script) = "send" ->
                    LET r == res_send_json(out.res, Bodies.json, stack_intact)
                    IN [res |-> r.res, writes |-> out.writes \o r.writes],
             stack_intact)

\* A hook or handler either leaves the response alone or sends one; a
\* middleware besides calls next or returns without calling it.
HookBehaviours == {[script |-> Pass, next |-> FALSE], [script |-> SendOk, next |-> FALSE]}

MiddlewareBehaviours ==
    {[script |-> Pass, next |-> TRUE], [script |-> Pass, next |-> FALSE],
     [script |-> SendOk, next |-> FALSE]}

\* A middleware loop that walks the array from its last entry
MiddlewareReversed(i) == middleware[Len(middleware) + 1 - i]

\* reavix_state.middleware[i] of the middleware loop, i counted from 1
MiddlewareAt(i) == middleware[i]

\* The next plugin after the i-th with a pre_handler, 0 when there is none:
\* the pre-handler loop skips the plugins without one
NextPre(i) ==
    LET js == {j \in (i + 1)..Len(plugins) : plugins[j].pre_handler # NULL}
    IN IF js = {} THEN 0 ELSE CHOOSE j \in js : \A k \in js : j <= k

NextPost(i) ==
    LET js == {j \in (i + 1)..Len(plugins) : plugins[j].post_handler # NULL}
    IN IF js = {} THEN 0 ELSE CHOOSE j \in js : \A k \in js : j <= k

\* A post-handler loop that is not entered once the response has been sent
PostLoopUnlessSent(response) == ~response.headers_sent

\* The post-handler loop is entered whatever headers_sent says
PostLoopEntered(response) == TRUE

\* Where handle_request stands on entering each of its loops
EnterPost(response) ==
    IF PostLoopEntered(response) /\ NextPost(0) # 0
    THEN <<"post_handler", NextPost(0)>> ELSE <<"done", 0>>

EnterPre == IF NextPre(0) # 0 THEN <<"pre_handler", NextPre(0)>> ELSE <<"route", 0>>

EnterMiddleware == IF Len(middleware) > 0 THEN <<"middleware", 1>> ELSE EnterPre

Call(kind, i, fn, next, response) ==
    [kind |-> kind, idx |-> i, fn |-> fn, next |-> next, sent |-> response.headers_sent]

NoRequest == [method |-> NULL, path |-> <<>>, params |-> <<>>]

\* on_read hands a parsed request and a fresh response to handle_request
accept_request(method, path, client) ==
    /\ ~fault
    /\ pc = "idle"
    /\ req' = [method |-> method, path |-> path, params |-> <<>>]
    /\ res' = NewResponse(client)
    /\ calls' = <<>>
    /\ wire' = <<>>
    /\ \E at \in {EnterMiddleware} : pc' = at[1] /\ idx' = at[2]
    /\ UNCHANGED <<routing_vars, registry_vars, linked, sdk, ipc_vars, sync_vars>>

\* middleware[i](req, res, next), then the headers_sent test
call_middleware(b, stack_intact) ==
    /\ pc = "middleware"
    /\ \E r \in {RunScript(b.script, [res |-> res, writes |-> <<>>], stack_intact)} :
       /\ res' = r.res
       /\ wire' = wire \o r.writes
       /\ calls' = Append(calls, Call("middleware", idx, MiddlewareAt(idx), b.next, r.res))
       /\ \E at \in {IF r.res.headers_sent THEN <<"done", 0>>
                     ELSE IF idx < Len(middleware) THEN <<"middleware", idx + 1>>
                     ELSE EnterPre} : pc' = at[1] /\ idx' = at[2]
    /\ UNCHANGED <<routing_vars, registry_vars, linked, sdk, ipc_vars, sync_vars, req>>

\* plugins[i].pre_handler(req, res), then the headers_sent test
call_pre_handler(b, stack_intact) ==
    /\ pc = "pre_handler"
    /\ \E r \in {RunScript(b.script, [res |-> res, writes |-> <<>>], stack_intact)} :
       /\ res' = r.res
       /\ wire' = wire \o r.writes
       /\ calls' = Append(calls, Call("pre_handler", idx, plugins[idx].pre_handler,
                                      FALSE, r.res))
       /\ \E at \in {IF r.res.headers_sent THEN <<"done", 0>>
                     ELSE IF NextPre(idx) # 0 THEN <<"pre_handler", NextPre(idx)>>
                     ELSE <<"route", 0>>} : pc' = at[1] /\ idx' = at[2]
    /\ UNCHANGED <<routing_vars, registry_vars, linked, sdk, ipc_vars, sync_vars, req>>

\* trie_match under the mutex, then the route handler or the 404
route_request(b, stack_intact) ==
    /\ ~fault
    /\ pc = "route"
    /\ \E m \in {trie_match(root_node, req.path)} :
       IF m.fault
       THEN /\ fault' = TRUE
            /\ UNCHANGED <<routes, route_count, route_capacity, root_node,
                           alloc_failed, last, request_vars>>
       ELSE
       /\ \E r \in {IF m.matched /\ m.handler # NULL
                    THEN RunScript(b.script, [res |-> res, writes |-> <<>>], stack_intact)
                    ELSE res_send_error(res, 404, "Not Found", stack_intact)} :
          /\ res' = r.res
          /\ wire' = wire \o r.writes
          /\ calls' = Append(calls,
                          IF m.matched /\ m.handler # NULL
                          THEN Call("handler", 0, m.handler, FALSE, r.res)
                     ELSE Call("not_found", 0, NULL, FALSE, r.res))
          /\ \E at \in {EnterPost(r.res)} : pc' = at[1] /\ idx' = at[2]
       /\ req' = IF m.matched /\ m.handler # NULL
                 THEN [req EXCEPT !.params = m.params] ELSE req
       /\ UNCHANGED routing_vars
    /\ UNCHANGED <<registry_vars, linked, sdk, ipc_vars, sync_vars>>

\* plugins[i].post_handler(req, res)
call_post_handler(b, stack_intact) ==
    /\ pc = "post_handler"
    /\ \E r \in {RunScript(b.script, [res |-> res, writes |-> <<>>], stack_intact)} :
       /\ res' = r.res
       /\ wire' = wire \o r.writes
       /\ calls' = Append(calls, Call("post_handler", idx, plugins[idx].post_handler,
                                      FALSE, r.res))
       /\ \E at \in {IF NextPost(idx) # 0 THEN <<"post_handler", NextPost(idx)>>
                     ELSE <<"done", 0>>} : pc' = at[1] /\ idx' = at[2]
    /\ UNCHANGED <<routing_vars, registry_vars, linked, sdk, ipc_vars, sync_vars, req>>

\* handle_request has returned; request_free and response_free
request_free ==
    /\ pc = "done"
    /\ pc' = "idle"
    /\ idx' = 0
    /\ req' = NoRequest
    /\ res' = NewResponse(NULL)
    /\ calls' = <<>>
    /\ wire' = <<>>
    /\ UNCHANGED <<routing_vars, registry_vars, linked, sdk, ipc_vars, sync_vars>>

\* ipc_arena_init: both offsets 0, the buffer zeroed; no thread is inside
\* ipc_arena_allocate
Writers == {"w1", "w2"}

IdleWriter == [pc |-> "idle", size |-> 0, aligned_size |-> 0, current_offset |-> 0]

ArenaInit ==
    /\ arena = [write_offset |-> 0, read_offset |-> 0, buffer |-> <<>>,
                overrun |-> FALSE]
    /\ writers = [t \in Writers |-> IdleWriter]
    /\ regions = <<>>
    /\ reads = [op |-> "none"]

\* The callers of IPCManager.withSharedBuffer that share one buffer
MaxCallers == 3
Callers == 1..MaxCallers

\* new SharedArrayBuffer(...): every word zero, nobody inside. `slot` is the
\* caller whose request bytes lie at offset 16, 0 while none were written;
\* `answered` is the caller whose request the response region answers.
ChannelInit ==
    /\ view = [lock |-> 0, request |-> 0, response |-> 0, slot |-> 0, answered |-> 0]
    /\ callers = [c \in Callers |-> "out"]

\* The threads that dispatch requests
Threads == {"t1", "t2"}

IdleThread == [fn |-> "none", steps |-> <<>>, trace |-> <<>>]

DispatchInit ==
    /\ mutex = NULL
    /\ threads = [t \in Threads |-> IdleThread]

\* The reconnect options a WebSocketClient is constructed with
DefaultDelay == 1000
DefaultMaxAttempts == 5
DefaultBackoffFactor == 2

\* new WebSocketClient(config) with a wsURL: the constructor has called
\* connect(), the socket is connecting, nothing is subscribed.
\* reconnectTimeout is 0 for null; `timer` tells whether a setTimeout
\* callback is pending; `due` is set when onclose found a reconnect allowed
\* and cleared by the next connect().
SdkInit ==
    sdk = [config |-> [wsURL |-> "ws://a", enabled |-> TRUE, delay |-> DefaultDelay,
                       maxAttempts |-> DefaultMaxAttempts,
                       backoffFactor |-> DefaultBackoffFactor],
           socket |-> "connecting", reconnectAttempts |-> 0, reconnectTimeout |-> 0,
           timer |-> FALSE, delay |-> 0, due |-> FALSE, eventHandlers |-> <<>>]

PipelineInit ==
    /\ SdkInit
    /\ RoutingInit
    /\ ArenaInit
    /\ ChannelInit
    /\ DispatchInit
    /\ middleware = <<>>
    /\ plugins = <<>>
    /\ clients = <<>>
    /\ client_capacity = 0
    /\ pc = "idle"
    /\ idx = 0
    /\ req = NoRequest
    /\ res = NewResponse(NULL)
    /\ calls = <<>>
    /\ wire = <<>>

Setup == reavix_init(MaxRoutes)

AddRoute == reavix_route("GET", PathUsersMe, "h1", 0)

\* An application registers each middleware and each plugin once. The
\* middleware functions differ in name only (what one does is chosen when it
\* is called), so they are registered in the order m1, m2, m3.
Use ==
    /\ Len(middleware) < Len(MiddlewareOrder)
    /\ reavix_use(MiddlewareOrder[Len(middleware) + 1])

RegisterPlugin ==
    \E p \in PluginSet :
        /\ \A i \in 1..Len(plugins) : plugins[i] # p
        /\ reavix_register_plugin(p)

Connect == \E s \in Streams : on_connection(s)

Accept == \E path \in {PathUsersMe, ReqUsers}, c \in Streams :
              accept_request("GET", path, c)

MiddlewareStep ==
    \E b \in MiddlewareBehaviours, k \in BOOLEAN : call_middleware(b, k)

PreHookStep == \E b \in HookBehaviours, k \in BOOLEAN : call_pre_handler(b, k)

RouteStep == \E b \in HookBehaviours, k \in BOOLEAN : route_request(b, k)

PostHookStep == \E b \in HookBehaviours, k \in BOOLEAN : call_post_handler(b, k)

vars == <<routing_vars, registry_vars, linked, sdk, request_vars, ipc_vars, sync_vars>>

Init == PipelineInit /\ linked = "src"

\* Allocation never fails
NoFailNext == InitCall \/ RouteNoFail \/ RouteNullHandler \/ LookupCall

Next == NoFailNext \/ RouteMayFail

Spec == Init /\ [][Next]_vars

NoFailSpec == Init /\ [][NoFailNext]_vars

\* The request pipeline over a small route table, under either definition
\* of res_send_json
PipelineStart == PipelineInit /\ linked \in {"src", "include"}

PipelineNext ==
    \/ Setup \/ AddRoute \/ Use \/ RegisterPlugin \/ Connect
    \/ Accept \/ MiddlewareStep \/ PreHookStep \/ RouteStep \/ PostHookStep
    \/ request_free

PipelineSpec == PipelineStart /\ [][PipelineNext]_vars

----------------------------------------------------------------------------
(* What the route table promises, stated on patterns and paths *)

\* A concrete path matches a pattern: same segments, any literal for ':name'
PatternMatches(pattern, path) ==
    LET ps == strtok_r(pattern)
        qs == strtok_r(path)
    IN /\ Len(ps) = Len(qs)
       /\ \A k \in 1..Len(ps) : IsParamSegment(ps[k]) \/ ps[k] = qs[k]

RECURSIVE BoundParams(_, _)
BoundParams(ps, qs) ==
    IF ps = <<>> THEN <<>>
    ELSE (IF IsParamSegment(Head(ps))
          THEN <<[name |-> Tail(Head(ps)), value |-> Head(qs)]>> ELSE <<>>)
         \o BoundParams(Tail(ps), Tail(qs))

\* The literals bound to the placeholders of a pattern, in declaration order
ExpectedParams(pattern, path) == BoundParams(strtok_r(pattern), strtok_r(path))

\* The node a pattern names in the trie: static segments by equal text, a
\* ':name' segment by the parameter child of that name; <<>> when absent.
RECURSIVE NodeOf(_, _)
NodeOf(node, ps) ==
    IF ps = <<>> THEN <<node>>
    ELSE IF IsParamSegment(Head(ps))
    THEN IF node.param_child # <<>> /\ node.param_child[1].segment = Head(ps)
         THEN NodeOf(node.param_child[1], Tail(ps)) ELSE <<>>
    ELSE LET hits == {i \in 1..Len(node.children) :
                         node.children[i].segment = Head(ps)}
         IN IF hits = {} THEN <<>>
            ELSE NodeOf(node.children[CHOOSE i \in hits : TRUE], Tail(ps))

\* The patterns (as segment lists) of the nodes under `node` that carry a handler
RECURSIVE HandlerNodes(_, _)
HandlerNodes(node, prefix) ==
    (IF node.handler # NULL THEN {[segs |-> prefix, handler |-> node.handler]} ELSE {})
    \cup UNION {HandlerNodes(node.children[i], Append(prefix, node.children[i].segment)) :
                    i \in 1..Len(node.children)}
    \cup (IF node.param_child = <<>> THEN {}
          ELSE HandlerNodes(node.param_child[1],
                            Append(prefix, node.param_child[1].segment)))

InTable(method, path) ==
    \E i \in 1..route_count : routes[i].method = method /\ routes[i].path = path

----------------------------------------------------------------------------
(* C1: for every route in the table and every concrete path that matches
   its pattern, the lookup returns the route's handler and the literals bound
   to its ':name' placeholders, in declaration order. *)
C1_LookupReturnsRoute ==
    \A i \in 1..route_count : \A path \in RequestPaths :
        PatternMatches(routes[i].path, path) =>
            LET r == trie_match(root_node, path) IN
            /\ r.matched
            /\ r.handler = routes[i].handler
            /\ r.params = ExpectedParams(routes[i].path, path)

(* C2: static priority. At every step of every lookup, when the node has a
   static child whose text equals the request segment the lookup descends
   into that child and not into the parameter child; and with /users/me
   reachable beside a parameter child, the lookup of /users/me returns the
   handler of the static node and captures nothing. *)
C2_StaticPriority ==
    \A path \in RequestPaths :
        LET r == trie_match(root_node, path) IN
        /\ \A k \in 1..Len(r.steps) :
              LET n == r.steps[k].node IN
              (\E i \in 1..Len(n.children) :
                   i <= n.child_count /\ n.children[i].segment = r.steps[k].segment)
              => r.steps[k].choice = "static"
        /\ \A me \in {NodeOf(root_node, strtok_r(PathUsersMe))} :
              (path = PathUsersMe /\ me # <<>>) =>
                  /\ r.handler = me[1].handler
                  /\ r.params = <<>>
                  /\ r.matched = (me[1].handler # NULL)

\* /users/:id and /users/me are both in the trie and /users/me was looked up
C2_Witness ==
    /\ last.op = "trie_match" /\ last.path = PathUsersMe
    /\ last.ret /\ last.params = <<>>
    /\ NodeOf(root_node, strtok_r(PathUsersId)) # <<>>
    /\ InTable("GET", PathUsersId) /\ InTable("GET", PathUsersMe)

(* C3: registering a (method, path) pair that is already in the route table
   returns failure and leaves the table, its size and the trie as they were. *)
C3_DuplicateRejected ==
    (last.op = "reavix_route" /\ last.in_table) => (~last.ret /\ ~last.changed)

\* A duplicate registration was refused while the table still had room
C3_Witness ==
    /\ last.op = "reavix_route" /\ last.in_table /\ ~last.ret
    /\ route_count = 1 /\ route_capacity = MaxRoutes

(* C4: the route table and the trie agree. Every route of the table names a
   trie node that carries the handler the route was registered with, and
   every trie node that carries a handler is the node of a route of the
   table with that handler. *)
C4_TableTrieAgree ==
    /\ \A i \in 1..route_count :
          LET n == NodeOf(root_node, strtok_r(routes[i].path)) IN
          n # <<>> /\ n[1].handler = routes[i].handler
    /\ \A hn \in HandlerNodes(root_node, <<>>) :
          \E i \in 1..route_count :
              strtok_r(routes[i].path) = hn.segs /\ routes[i].handler = hn.handler

(* C5: a registration that returns failure has changed neither the route
   table nor the trie. *)
C5_FailureChangesNothing ==
    (last.op = "reavix_route" /\ ~last.ret) => ~last.changed

----------------------------------------------------------------------------
(* What the pipeline promises, stated on the callbacks invoked and the
   bytes handed to the connection *)

LastCall == calls[Len(calls)]

\* The k-th callback was a middleware or a pre-handler hook that left
\* headers_sent set
SentEarly(k) == calls[k].kind \in {"middleware", "pre_handler"} /\ calls[k].sent

\* The bytes that go out for the uv_write requests issued, in order
Transmitted == [k \in 1..Len(wire) |-> wire[k].bytes]

\* The response as the wire format lays it out: status line, one line per
\* header, Content-Length, a blank line, then the body if there is one
Framed(response) ==
    <<StatusLine(response.status_code)
      \o Flatten([i \in 1..Len(response.headers) |-> HeaderLine(response.headers[i])])
      \o LengthLine(response.content_length)>>
    \o (IF response.content = <<>> THEN <<>> ELSE <<response.content>>)

\* The plugins' hooks of one kind in registration order, those not set left out
PreHooks ==
    LET ps == SelectSeq(plugins, LAMBDA p : p.pre_handler # NULL)
    IN [k \in 1..Len(ps) |-> <<"pre_handler", ps[k].pre_handler>>]

PostHooks ==
    LET ps == SelectSeq(plugins, LAMBDA p : p.post_handler # NULL)
    IN [k \in 1..Len(ps) |-> <<"post_handler", ps[k].post_handler>>]

\* The stage of a callback and the function called; the route handler and
\* the synthesized 404 are the two forms of the one route stage
StageOf(c) ==
    IF c.kind \in {"handler", "not_found"} THEN <<"route", NULL>> ELSE <<c.kind, c.fn>>

Stages == [k \in 1..Len(calls) |-> StageOf(calls[k])]

\* The callbacks of a request that runs the whole pipeline
FullPipeline ==
    [i \in 1..Len(middleware) |-> <<"middleware", middleware[i]>>]
    \o PreHooks \o <<<<"route", NULL>>>> \o PostHooks

(* C6: when the route lookup reports not-found, the response the pipeline
   produces has status 404 and a JSON body with the key "error", and the
   status line serialized for it says 404. *)
C6_NotFoundIs404 ==
    (calls # <<>> /\ LastCall.kind = "not_found") =>
        /\ res.status_code = 404
        /\ \E k \in 1..Len(res.content) : res.content[k] = "\"error\""
        /\ \A k \in 1..Len(wire) :
              wire[k].base = "headers" => wire[k].image[2] = "404"

(* C7: when a middleware or a pre-handler hook has left headers_sent set,
   it is the last callback of the request (no later middleware, pre-hook,
   route lookup, handler or post-hook), and the bytes transmitted are the
   status, headers and body of the response as that stage left it. *)
C7_EarlySendEndsRequest ==
    \A k \in 1..Len(calls) :
        SentEarly(k) =>
            /\ k = Len(calls) /\ pc = "done"
            /\ Transmitted = Framed(res)

(* C8 as the code has it: a middleware or pre-handler hook that has left
   headers_sent set is the last callback of the request; a response sent by
   the route handler or by the synthesized 404 stops nothing, every
   post-handler hook still runs, in plugin registration order. *)
C8_PostHooksRunAfterSend ==
    /\ \A k \in 1..Len(calls) : SentEarly(k) => (k = Len(calls) /\ pc = "done")
    /\ \A k \in 1..Len(calls) :
          (pc = "done" /\ calls[k].kind \in {"handler", "not_found"}) =>
              SubSeq(Stages, k + 1, Len(calls)) = PostHooks

\* The route handler sent the response and a post-handler hook ran after it
C8_Witness ==
    /\ pc = "done"
    /\ \E k \in 1..(Len(calls) - 1) :
          /\ calls[k].kind = "handler" /\ calls[k].sent
          /\ calls[k + 1].kind = "post_handler"

(* C8 as stated: once any callback has left headers_sent set, no callback
   is invoked after it. *)
C8_SendStopsEverything ==
    \A k \in 1..(Len(calls) - 1) : ~calls[k].sent

(* C9: a middleware that returns without calling next is the last callback
   of the request, whether or not it sent a response. *)
C9_NoNextStopsPipeline ==
    \A k \in 1..Len(calls) :
        (calls[k].kind = "middleware" /\ ~calls[k].next) =>
            (k = Len(calls) /\ pc = "done")

(* C10: the callbacks of a request are invoked in the order middleware
   (registration order), pre-handler hooks (plugin registration order), one
   of route handler and synthesized 404, post-handler hooks (plugin
   registration order): what has been invoked so far is always a prefix of
   that list, and a request that no middleware or pre-handler hook ended
   has invoked all of it when handle_request returns. *)
C10_CallbackOrder ==
    /\ Len(calls) <= Len(FullPipeline)
    /\ Stages = SubSeq(FullPipeline, 1, Len(calls))
    /\ (pc = "done" /\ \A k \in 1..Len(calls) : ~SentEarly(k)) =>
           Stages = FullPipeline

\* A request went through two middleware, a pre-handler hook, the route
\* handler and a post-handler hook
C10_Witness ==
    /\ pc = "done"
    /\ Len(middleware) = 2
    /\ PreHooks # <<>> /\ PostHooks # <<>>
    /\ Stages = FullPipeline
    /\ \E k \in 1..Len(calls) : calls[k].kind = "handler"

----------------------------------------------------------------------------
(* The response helpers called one after another on one Response *)

MaxHeaders == 2       \* the most header pairs a response is given
MaxBodyParts == 2     \* the most pieces res_write appends to a body

\* strcasecmp compares without regard to case: the names in lower case
Lower(name) ==
    CASE name = "Content-Type" -> "content-type"
      [] name = "Content-Encoding" -> "content-encoding"
      [] name = "X-Tag" -> "x-tag"
      [] OTHER -> name

\* A header pair whose strings have been freed
Dangling == [name |-> "?", value |-> "?"]

\* res_has_header: some header name equals `name`, case ignored
res_has_header(response, name) ==
    \E i \in 1..Len(response.headers) : Lower(response.headers[i].name) = Lower(name)

\* res_remove_header: the strings of the first pair of that name are freed,
\* then every slot j < count-1 takes slot j+1, from slot 0 on whatever the
\* index found, and the count drops by one. stale_intact: the freed strings
\* still read as they did.
res_remove_header(response, name, stale_intact) ==
    LET hits == {i \in 1..Len(response.headers) :
                    Lower(response.headers[i].name) = Lower(name)}
        i == CHOOSE k \in hits : \A j \in hits : k <= j
        freed == IF stale_intact THEN response.headers
                 ELSE [response.headers EXCEPT ![i] = Dangling]
    IN IF hits = {} THEN response
       ELSE [response EXCEPT !.headers = Tail(freed)]

\* res_write: the bytes are appended to the body; realloc_ok is realloc's result
res_write(response, data, realloc_ok) ==
    IF ~realloc_ok THEN [res |-> response, ret |-> FALSE]
    ELSE [res |-> [response EXCEPT !.content = @ \o data,
                                   !.content_length = @ + PartsLen(data)],
          ret |-> TRUE]

\* res_compress: the compression type is stored
res_compress(response, type) == [response EXCEPT !.compression = type]

\* One helper has been called on the response in hand: what it left, the
\* uv_write requests it issued, and the response as it was before the call
ApiCall(op, response, writes) ==
    /\ pc = "idle"
    /\ res' = response
    /\ wire' = wire \o writes
    /\ last' = [op |-> op, before |-> res, written |-> Len(writes)]
    /\ UNCHANGED <<routes, route_count, route_capacity, root_node, fault,
                   alloc_failed, registry_vars, linked, sdk, ipc_vars, sync_vars, pc, idx, req, calls>>

\* A fresh Response for a connection
NewResponseCall ==
    /\ pc = "idle"
    /\ \E c \in Streams : res' = NewResponse(c)
    /\ wire' = <<>>
    /\ last' = [op |-> "new", before |-> res, written |-> 0]
    /\ UNCHANGED <<routes, route_count, route_capacity, root_node, fault,
                   alloc_failed, registry_vars, linked, sdk, ipc_vars, sync_vars, pc, idx, req, calls>>

SetHeaderCall ==
    /\ Len(res.headers) < MaxHeaders
    /\ ApiCall("res_set_header", res_set_header(res, "X-Tag", "t"), <<>>)

RemoveHeaderCall ==
    \E name \in {"x-tag", "Content-Type"}, k \in BOOLEAN :
        ApiCall("res_remove_header", res_remove_header(res, name, k), <<>>)

WriteCall ==
    /\ Len(res.content) < MaxBodyParts
    /\ \E ok \in BOOLEAN : \E r \in {res_write(res, <<"x">>, ok)} :
          ApiCall("res_write", r.res, <<>>)

SendJsonCall ==
    /\ Len(res.headers) < MaxHeaders
    /\ \E k \in BOOLEAN : \E r \in {res_send_json(res, <<"{", "}">>, k)} :
          ApiCall("res_send_json", r.res, r.writes)

SendErrorCall ==
    /\ Len(res.headers) < MaxHeaders
    /\ \E k \in BOOLEAN : \E r \in {res_send_error(res, 500, "Oops", k)} :
          ApiCall("res_send_error", r.res, r.writes)

CompressCall == \E type \in {"none", "gzip"} :
    ApiCall("res_compress", res_compress(res, type), <<>>)

MAX_FILE_SIZE == 10 * 1024 * 1024   \* the size limit of res_send_file

\* The files res_send_file is pointed at: whether open, fstat, malloc and
\* read succeed, the size fstat reports and the extension of the path
File(opens, stat_ok, st_size, malloc_ok, read_ok, ext) ==
    [opens |-> opens, stat_ok |-> stat_ok, st_size |-> st_size,
     malloc_ok |-> malloc_ok, read_ok |-> read_ok, ext |-> ext]

Files ==
    {File(FALSE, TRUE, 5, TRUE, TRUE, ".html"),
     File(TRUE, FALSE, 5, TRUE, TRUE, ".html"),
     File(TRUE, TRUE, 5, TRUE, TRUE, ".html"),
     File(TRUE, TRUE, 5, TRUE, TRUE, ""),
     File(TRUE, TRUE, MAX_FILE_SIZE, TRUE, TRUE, ".css"),
     File(TRUE, TRUE, MAX_FILE_SIZE + 1, TRUE, TRUE, ".html"),
     File(TRUE, TRUE, 11 * 1024 * 1024, FALSE, FALSE, ".js"),
     File(TRUE, TRUE, 5, FALSE, TRUE, ".html"),
     File(TRUE, TRUE, 5, TRUE, FALSE, ".html")}

FileBytes(f) == <<"bytes of the file">>

\* The Content-Type res_send_file picks from the extension (strrchr, strcmp)
FileContentType(ext) ==
    CASE ext = ".html" -> "text/html"
      [] ext = ".css" -> "text/css"
      [] ext = ".js" -> "text/javascript"
      [] OTHER -> "application/octet-stream"

\* res_send_file: the response it leaves, the writes issued, and whether a
\* buffer was allocated and file bytes were read on the way
res_send_file(response, f, stack_intact) ==
    LET error(code, message, allocated, read) ==
            LET r == res_send_error(response, code, message, stack_intact)
            IN [res |-> r.res, writes |-> r.writes, allocated |-> allocated,
                read |-> read]
    IN
    IF ~f.opens THEN error(404, "File not found", FALSE, FALSE)
    ELSE IF ~f.stat_ok THEN error(500, "File stat failed", FALSE, FALSE)
    ELSE IF f.st_size > MAX_FILE_SIZE THEN error(413, "File too large", FALSE, FALSE)
    ELSE IF ~f.malloc_ok THEN error(500, "Memory allocation failed", FALSE, FALSE)
    ELSE IF ~f.read_ok THEN error(500, "File read failed", TRUE, TRUE)
    ELSE [res |-> res_set_header([response EXCEPT !.status_code = 200,
                                                  !.content = FileBytes(f),
                                                  !.content_length = f.st_size],
                                 "Content-Type", FileContentType(f.ext)),
          writes |-> <<>>, allocated |-> TRUE, read |-> TRUE]

SendFileCall ==
    /\ pc = "idle"
    /\ Len(res.headers) < MaxHeaders
    /\ \E f \in Files, k \in BOOLEAN : \E r \in {res_send_file(res, f, k)} :
          /\ res' = r.res
          /\ wire' = wire \o r.writes
          /\ last' = [op |-> "res_send_file", before |-> res,
                      written |-> Len(r.writes), file |-> f,
                      allocated |-> r.allocated, read |-> r.read]
    /\ UNCHANGED <<routes, route_count, route_capacity, root_node, fault,
                   alloc_failed, registry_vars, linked, sdk, ipc_vars, sync_vars, pc, idx, req, calls>>

ResponseNext ==
    \/ Connect \/ NewResponseCall \/ SetHeaderCall \/ RemoveHeaderCall
    \/ WriteCall \/ SendJsonCall \/ SendErrorCall \/ CompressCall

\* The response helpers in any order, under either definition of res_send_json
ResponseSpec == PipelineStart /\ [][ResponseNext]_vars

FileNext == Connect \/ NewResponseCall \/ SetHeaderCall \/ SendFileCall

\* res_send_file on fresh and on used responses
FileSpec == PipelineStart /\ [][FileNext]_vars

\* The helpers C11 names
LatchedHelpers == {"res_set_header", "res_remove_header", "res_write",
                   "res_send_json", "res_send_error", "res_compress"}

(* C11: headers_sent never goes from true back to false on a response,
   and a helper called once it is true leaves status code, header list and
   body as they were and transmits nothing. *)
C11_SentLatch ==
    (last.op \in LatchedHelpers /\ last.before.headers_sent) =>
        /\ res.headers_sent
        /\ res.status_code = last.before.status_code
        /\ res.headers = last.before.headers
        /\ res.content = last.before.content
        /\ last.written = 0

(* C18: res_send_file leaves 404 when the file cannot be opened, 413 when
   it is larger than 10 MB, with no buffer allocated and no byte read, 500
   when fstat, malloc or read fails, and 200 with the file's bytes
   otherwise. *)
C18_SendFileStatus ==
    last.op = "res_send_file" =>
        LET f == last.file IN
        /\ ~f.opens => res.status_code = 404
        /\ (f.opens /\ f.stat_ok /\ f.st_size > MAX_FILE_SIZE) =>
               (res.status_code = 413 /\ ~last.allocated /\ ~last.read)
        /\ (f.opens /\ (~f.stat_ok \/ (f.st_size <= MAX_FILE_SIZE
                                       /\ (~f.malloc_ok \/ ~f.read_ok)))) =>
               res.status_code = 500
        /\ (f.opens /\ f.stat_ok /\ f.st_size <= MAX_FILE_SIZE /\ f.malloc_ok
            /\ f.read_ok) =>
               (res.status_code = 200 /\ res.content = FileBytes(f)
                /\ res.content_length = f.st_size)

----------------------------------------------------------------------------
(* The message arena: ipc_arena_allocate, a writer's payload, a reader *)

IPC_MAGIC == 1380270422            \* 0x52454156
IPC_BUFFER_SIZE == 4194304         \* 1 << 22
HEADER_SIZE == 16

MaxAllocs == 3        \* the most calls of ipc_arena_allocate in one run

\* The sizes asked for: small ones, half the buffer, and sizes at the end
\* of the buffer with and without room for the header
Sizes == {1, 16, 100, IPC_BUFFER_SIZE \div 2, IPC_BUFFER_SIZE - 16,
          IPC_BUFFER_SIZE - 8, IPC_BUFFER_SIZE}

\* (size + 15) & ~15
AlignUp(size) == ((size + 15) \div 16) * 16

\* A payload of `len` bytes all equal to `fill`: "0" the zero byte of
\* memset, "d" a byte of the writer's data
Payload(fill, len) == [fill |-> fill, len |-> len]

\* XXH32(ptr, size, seed): a hash of the bytes and the seed, taken as free
\* of collisions
XXH32(payload, seed) == <<"xxh32", payload.fill, payload.len, seed>>

\* The arena buffer holds, per header offset written, the four header words
\* and the payload bytes behind them
CellAt(offset) ==
    IF \E k \in 1..Len(arena.buffer) : arena.buffer[k].offset = offset
    THEN arena.buffer[CHOOSE k \in 1..Len(arena.buffer) : arena.buffer[k].offset = offset]
    ELSE [offset |-> offset, magic |-> 0, length |-> 0, checksum |-> <<>>,
          flags |-> 0, payload |-> Payload("0", 0)]

StoreCell(buffer, cell) ==
    SelectSeq(buffer, LAMBDA c : c.offset # cell.offset) \o <<cell>>

\* size_t aligned_size = ...; current_offset = atomic_load(&write_offset)
allocate_load(t, size) ==
    /\ writers[t].pc = "idle"
    /\ Len(regions) + Cardinality({w \in Writers : writers[w].pc # "idle"}) < MaxAllocs
    /\ writers' = [writers EXCEPT ![t] = [pc |-> "loaded", size |-> size,
                                          aligned_size |-> AlignUp(size),
                                          current_offset |-> arena.write_offset]]
    /\ UNCHANGED <<arena, regions, reads>>

\* The capacity test; when it passes, the header words, the zeroed payload
\* and the checksum of the zeroed payload are written at current_offset
allocate_write(t) ==
    LET w == writers[t] IN
    /\ w.pc = "loaded"
    /\ IF w.current_offset + w.aligned_size > IPC_BUFFER_SIZE
       THEN /\ UNCHANGED arena
            /\ regions' = Append(regions, [by |-> t, ptr |-> 0, offset |-> w.current_offset,
                                           size |-> w.size, aligned_size |-> w.aligned_size,
                                           changed |-> arena' # arena, filled |-> FALSE])
            /\ writers' = [writers EXCEPT ![t] = IdleWriter]
       ELSE /\ arena' = [arena EXCEPT
                   !.buffer = StoreCell(@,
                       [offset |-> w.current_offset, magic |-> IPC_MAGIC,
                        length |-> w.size,
                        checksum |-> XXH32(Payload("0", w.size), IPC_MAGIC),
                        flags |-> 0, payload |-> Payload("0", w.size)]),
                   !.overrun = @ \/ w.current_offset + HEADER_SIZE + w.size
                                        > IPC_BUFFER_SIZE]
            /\ writers' = [writers EXCEPT ![t].pc = "written"]
            /\ UNCHANGED regions
    /\ UNCHANGED reads

\* atomic_store(&write_offset, current_offset + aligned_size + 16); return ptr
allocate_store(t) ==
    LET w == writers[t] IN
    /\ w.pc = "written"
    /\ arena' = [arena EXCEPT !.write_offset =
                     w.current_offset + w.aligned_size + HEADER_SIZE]
    /\ regions' = Append(regions, [by |-> t, ptr |-> w.current_offset + HEADER_SIZE,
                                   offset |-> w.current_offset, size |-> w.size,
                                   aligned_size |-> w.aligned_size,
                                   changed |-> TRUE, filled |-> FALSE])
    /\ writers' = [writers EXCEPT ![t] = IdleWriter]
    /\ UNCHANGED reads

\* The caller writes its payload into the region it was handed
write_payload(k) ==
    /\ regions[k].ptr # 0 /\ ~regions[k].filled
    /\ arena' = [arena EXCEPT !.buffer =
                     StoreCell(@, [CellAt(regions[k].offset) EXCEPT
                                       !.payload = Payload("d", regions[k].size)])]
    /\ regions' = [regions EXCEPT ![k].filled = TRUE]
    /\ UNCHANGED <<writers, reads>>

\* A reader takes the message at the header offset of a region handed out:
\* payload, stored checksum, and a checksum computed afresh
read_message(k) ==
    /\ regions[k].ptr # 0
    /\ \E c \in {CellAt(regions[k].offset)} :
          reads' = [op |-> "read", region |-> k, payload |-> c.payload,
                    stored |-> c.checksum, fresh |-> XXH32(c.payload, IPC_MAGIC),
                    accepted |-> c.checksum = XXH32(c.payload, IPC_MAGIC)]
    /\ UNCHANGED <<arena, writers, regions>>

ArenaStep(A) ==
    /\ pc = "idle"
    /\ A
    /\ UNCHANGED <<routing_vars, registry_vars, linked, sdk, request_vars, sync_vars>>

Allocate1 == ArenaStep(\E size \in Sizes : allocate_load("w1", size))
Write1 == ArenaStep(allocate_write("w1"))
Store1 == ArenaStep(allocate_store("w1"))
SharedAllocate1 == ArenaStep(\E size \in {16, 100} : allocate_load("w1", size))
SharedAllocate2 == ArenaStep(\E size \in {16, 100} : allocate_load("w2", size))
Write2 == ArenaStep(allocate_write("w2"))
Store2 == ArenaStep(allocate_store("w2"))
WritePayload == ArenaStep(\E k \in 1..Len(regions) : write_payload(k))
ReadMessage == ArenaStep(\E k \in 1..Len(regions) : read_message(k))

\* One writer, one reader
ArenaNext == Allocate1 \/ Write1 \/ Store1 \/ WritePayload \/ ReadMessage

ArenaSpec == Init /\ [][ArenaNext]_vars

\* Two threads allocating from the same arena
SharedArenaNext ==
    \/ SharedAllocate1 \/ Write1 \/ Store1
    \/ SharedAllocate2 \/ Write2 \/ Store2
    \/ WritePayload \/ ReadMessage

SharedArenaSpec == Init /\ [][SharedArenaNext]_vars

\* The bytes a successful call hands out: header and aligned payload
RegionLo(r) == r.offset
RegionHi(r) == r.offset + HEADER_SIZE + r.aligned_size

Handed == {k \in 1..Len(regions) : regions[k].ptr # 0}

Disjoint(j, k) ==
    RegionHi(regions[j]) <= RegionLo(regions[k])
    \/ RegionHi(regions[k]) <= RegionLo(regions[j])

(* C12: with one writer, the regions handed out are pairwise disjoint and
   inside [0, IPC_BUFFER_SIZE), and a call whose header plus aligned payload
   does not fit returns NULL with the write offset and the buffer as they
   were. *)
C12_RegionsDisjointInside ==
    /\ \A j, k \in Handed : j # k => Disjoint(j, k)
    /\ \A k \in Handed : RegionHi(regions[k]) <= IPC_BUFFER_SIZE
    /\ \A k \in 1..Len(regions) :
          regions[k].offset + HEADER_SIZE + regions[k].aligned_size > IPC_BUFFER_SIZE
          => (regions[k].ptr = 0 /\ ~regions[k].changed)
    /\ ~arena.overrun

(* C13: a reader of a message whose payload the writer has written gets
   that payload, finds the stored checksum equal to the checksum it computes
   over it, and accepts the message. *)
C13_RoundTrip ==
    (reads.op = "read" /\ regions[reads.region].filled) =>
        /\ reads.payload = Payload("d", regions[reads.region].size)
        /\ reads.stored = reads.fresh
        /\ reads.accepted

\* The bytes taken by the first k calls that succeeded
RECURSIVE SumHanded(_)
SumHanded(k) ==
    IF k = 0 THEN 0
    ELSE SumHanded(k - 1)
         + (IF regions[k].ptr # 0 THEN HEADER_SIZE + regions[k].aligned_size ELSE 0)

(* C14: with two threads allocating, in every interleaving the regions
   handed out are pairwise disjoint, and once no call is in progress the
   write offset is the sum of 16 + aligned size over the successful calls. *)
C14_ThreadSafe ==
    /\ \A j, k \in Handed : j # k => Disjoint(j, k)
    /\ (\A t \in Writers : writers[t].pc = "idle") =>
           arena.write_offset = SumHanded(Len(regions))

----------------------------------------------------------------------------
(* The shared spin channel: IPCManager.withSharedBuffer and readDir *)

\* A compare-exchange that stores the replacement whatever the word holds
\* and reports the expected value
compareExchangeBlind(word, expected, replacement) ==
    [old |-> expected, word |-> replacement]

\* Atomics.compareExchange(view, 0, expected, replacement): the old value,
\* and the word afterwards
compareExchange(word, expected, replacement) ==
    [old |-> word, word |-> IF word = expected THEN replacement ELSE word]

InOperation == {"op_set", "op_signal", "op_poll", "op_decode"}

\* A caller enters withSharedBuffer
enter(c) ==
    /\ callers[c] = "out"
    /\ callers' = [callers EXCEPT ![c] = "cas"]
    /\ UNCHANGED view

\* while (Atomics.compareExchange(this.view, 0, 0, 1) !== 0)
try_lock(c) ==
    /\ callers[c] = "cas"
    /\ \E r \in {compareExchange(view.lock, 0, 1)} :
          /\ view' = [view EXCEPT !.lock = r.word]
          /\ callers' = [callers EXCEPT ![c] = IF r.old # 0 THEN "wait"
                                               ELSE "op_set"]

\* A wait that sleeps without comparing the word with 1
wait_lock_unchecked(c) ==
    /\ callers[c] = "wait"
    /\ callers' = [callers EXCEPT ![c] = "asleep"]
    /\ UNCHANGED view

\* Atomics.wait(this.view, 0, 1): sleeps only while the word is still 1
wait_lock(c) ==
    /\ callers[c] = "wait"
    /\ callers' = [callers EXCEPT ![c] = IF view.lock = 1 THEN "asleep" ELSE "cas"]
    /\ UNCHANGED view

\* encoder.encode(path); view.set(encoded, 16): the request bytes are
\* written, or a path that does not fit throws
op_set(c, fits) ==
    /\ callers[c] = "op_set"
    /\ view' = IF fits THEN [view EXCEPT !.slot = c] ELSE view
    /\ callers' = [callers EXCEPT ![c] = IF fits THEN "op_signal" ELSE "release"]

\* Atomics.store(this.view, 1, 1); Atomics.notify(this.view, 1)
op_signal(c) ==
    /\ callers[c] = "op_signal"
    /\ view' = [view EXCEPT !.request = 1]
    /\ callers' = [callers EXCEPT ![c] = "op_poll"]

\* while (Atomics.load(this.view, 2) === 0) Atomics.wait(this.view, 2, 0)
op_poll(c) ==
    /\ callers[c] = "op_poll"
    /\ view.response # 0
    /\ callers' = [callers EXCEPT ![c] = "op_decode"]
    /\ UNCHANGED view

\* JSON.parse(decoder.decode(...)): returns the listing, or throws
op_decode(c) ==
    /\ callers[c] = "op_decode"
    /\ callers' = [callers EXCEPT ![c] = "release"]
    /\ UNCHANGED view

\* finally: Atomics.store(this.view, 0, 0)
release(c) ==
    /\ callers[c] = "release"
    /\ view' = [view EXCEPT !.lock = 0]
    /\ callers' = [callers EXCEPT ![c] = "notify"]

\* finally: Atomics.notify(this.view, 0, 1) wakes one sleeper, if any
notify(c) ==
    /\ callers[c] = "notify"
    /\ IF \E w \in Callers : callers[w] = "asleep"
       THEN \E w \in Callers :
               /\ callers[w] = "asleep"
               /\ callers' = [callers EXCEPT ![c] = "out", ![w] = "cas"]
       ELSE callers' = [callers EXCEPT ![c] = "out"]
    /\ UNCHANGED view

\* The native side answers a request: the response region is written and
\* the response word set; it may take the request word back
native_respond(takes_back) ==
    /\ view.request = 1
    /\ view' = [view EXCEPT !.response = 1, !.answered = view.slot,
                            !.request = IF takes_back THEN 0 ELSE 1]
    /\ UNCHANGED callers

ChannelStep(A) ==
    /\ pc = "idle"
    /\ A
    /\ UNCHANGED <<routing_vars, registry_vars, linked, sdk, request_vars, ipc_vars,
                   mutex, threads>>

Enter == ChannelStep(\E c \in Callers : enter(c))
TryLock == ChannelStep(\E c \in Callers : try_lock(c))
WaitLock == ChannelStep(\E c \in Callers : wait_lock(c))
OpSet == ChannelStep(\E c \in Callers, fits \in BOOLEAN : op_set(c, fits))
OpSignal == ChannelStep(\E c \in Callers : op_signal(c))
OpPoll == ChannelStep(\E c \in Callers : op_poll(c))
OpDecode == ChannelStep(\E c \in Callers : op_decode(c))
Release == ChannelStep(\E c \in Callers : release(c))
Notify == ChannelStep(\E c \in Callers : notify(c))
NativeRespond == ChannelStep(\E takes_back \in BOOLEAN : native_respond(takes_back))

ChannelNext ==
    \/ Enter \/ TryLock \/ WaitLock \/ OpSet \/ OpSignal \/ OpPoll \/ OpDecode
    \/ Release \/ Notify \/ NativeRespond

ChannelSpec == Init /\ [][ChannelNext]_vars

\* The callers executing their operation, and those whose request is written
\* and whose response is not yet decoded
Inside == {c \in Callers : callers[c] \in InOperation}
InFlight == {c \in Callers : callers[c] \in {"op_signal", "op_poll", "op_decode"}}

(* C15: at most one caller of withSharedBuffer is executing its operation
   at any time, the lock word is 1 whenever a caller is inside, and at most
   one request is in flight. *)
C15_MutualExclusion ==
    /\ Cardinality(Inside) <= 1
    /\ Inside # {} => view.lock = 1
    /\ Cardinality(InFlight) <= 1

\* One caller waits for its response while two others contend for the lock,
\* one of them asleep
C15_Witness ==
    /\ \E c \in Callers : callers[c] = "op_poll" /\ view.slot = c
    /\ \E w \in Callers : callers[w] = "asleep"
    /\ \E w \in Callers : callers[w] \in {"cas", "wait"}

----------------------------------------------------------------------------
(* WebSocket frames: reavix_ws_send *)

MaxFrames == 2        \* the most frames written for one response object

\* strlen(message) of the messages sent: both sides of 125 and of 65535
MsgLens == {0, 1, 125, 126, 255, 256, 65535, 65536, 70000}

\* A message of n bytes; the NULL pointer has text NULL
Message(text, n) == [text |-> text, len |-> n]
Messages == {Message("m", n) : n \in MsgLens} \cup {Message(NULL, 0)}

\* A value stored into one char of the frame
Byte(n) == n % 256

\* A framer that puts the low length byte first
ws_frame_low_byte_first(msg_len) ==
    IF msg_len <= 125
    THEN [sent |-> TRUE, header |-> <<129, Byte(msg_len)>>, offset |-> 2,
          frame_len |-> msg_len + 2]
    ELSE IF msg_len <= 65535
    THEN [sent |-> TRUE,
          header |-> <<129, 126, Byte(msg_len), Byte(msg_len \div 256)>>,
          offset |-> 4, frame_len |-> msg_len + 4]
    ELSE [sent |-> FALSE, header |-> <<129, 127>>, offset |-> 0,
          frame_len |-> msg_len + 10]

\* A framer that sends a longer message with its length cut to 16 bits
ws_frame_truncating(msg_len) ==
    IF msg_len <= 125
    THEN [sent |-> TRUE, header |-> <<129, Byte(msg_len)>>, offset |-> 2,
          frame_len |-> msg_len + 2]
    ELSE [sent |-> TRUE,
          header |-> <<129, 126, Byte(msg_len \div 256), Byte(msg_len)>>,
          offset |-> 4, frame_len |-> (msg_len % 65536) + 4]

\* The frame reavix_ws_send builds for strlen(message) = msg_len: the header
\* bytes, where the payload is copied to, and frame_len; sent is FALSE on the
\* branch that frees the frame and returns
ws_frame(msg_len) ==
    IF msg_len <= 125
    THEN [sent |-> TRUE, header |-> <<129, Byte(msg_len)>>, offset |-> 2,
          frame_len |-> msg_len + 2]
    ELSE IF msg_len <= 65535
    THEN [sent |-> TRUE,
          header |-> <<129, 126, Byte(msg_len \div 256), Byte(msg_len)>>,
          offset |-> 4, frame_len |-> msg_len + 4]
    ELSE [sent |-> FALSE, header |-> <<129, 127>>, offset |-> 0,
          frame_len |-> msg_len + 10]

\* reavix_ws_send(res, message): the uv_write requests it issues; fault when
\* malloc returned NULL and frame[0] is stored through it
reavix_ws_send(response, message, malloc_ok) ==
    LET ctx == find_client_context(response.client)
        f == ws_frame(message.len)
        none == [writes |-> <<>>, fault |-> FALSE]
    IN
    IF message.text = NULL \/ response.client = NULL THEN none
    ELSE IF ctx = 0 THEN none
    ELSE IF ~clients[ctx].is_websocket THEN none
    ELSE IF ~malloc_ok THEN [writes |-> <<>>, fault |-> TRUE]
    ELSE IF ~f.sent THEN none
    ELSE [writes |-> <<[stream |-> clients[ctx].stream, len |-> f.frame_len,
                        header |-> f.header, offset |-> f.offset,
                        payload |-> Message(message.text, message.len)]>>,
          fault |-> FALSE]

\* The connection manager marks a connection as upgraded to WebSocket
ws_upgrade(stream) ==
    /\ pc = "idle"
    /\ find_client_context(stream) # 0
    /\ ~clients[find_client_context(stream)].is_websocket
    /\ clients' = [clients EXCEPT ![find_client_context(stream)] =
                      [@ EXCEPT !.is_websocket = TRUE, !.websocket_connected = TRUE]]
    /\ UNCHANGED <<routing_vars, middleware, plugins, client_capacity, linked, sdk,
                   ipc_vars, sync_vars, request_vars>>

Upgrade == \E s \in Streams : ws_upgrade(s)

WsSendCall ==
    /\ pc = "idle"
    /\ ~fault
    /\ Len(wire) < MaxFrames
    /\ UNCHANGED <<routes, route_count, route_capacity, root_node, alloc_failed,
                   registry_vars, linked, sdk, ipc_vars, sync_vars, pc, idx, req, res,
                   calls>>
    /\ \E message \in Messages, malloc_ok \in BOOLEAN :
       \E r \in {reavix_ws_send(res, message, malloc_ok)} :
          /\ wire' = wire \o r.writes
          /\ fault' = r.fault
          /\ last' = [op |-> "reavix_ws_send", before |-> res,
                      written |-> Len(r.writes), message |-> message,
                      frames |-> r.writes,
                      websocket |-> \E i \in 1..Len(clients) :
                                       /\ clients[i].stream = res.client
                                       /\ clients[i].is_websocket,
                      kept |-> <<clients', res'>> = <<clients, res>>]

WsNext == Connect \/ Upgrade \/ NewResponseCall \/ WsSendCall

WsSpec == PipelineStart /\ [][WsNext]_vars

\* The last call was reavix_ws_send for a response of a WebSocket connection
WsSendOnWebSocket ==
    /\ last.op = "reavix_ws_send"
    /\ last.message.text # NULL
    /\ last.websocket

(* C16: a WebSocket send of a message longer than 65535 bytes writes no
   frame, whole or partial, to the stream and leaves the connection and the
   response as they were. *)
C16_OversizeRejected ==
    (last.op = "reavix_ws_send" /\ last.message.len > 65535) =>
        /\ last.written = 0
        /\ last.frames = <<>>
        /\ last.kept

\* A 70000-byte message was sent on a WebSocket connection that had already
\* carried a frame
C16_Witness ==
    /\ WsSendOnWebSocket
    /\ ~fault
    /\ last.message.len = 70000
    /\ Len(wire) = 1

(* C17: for a message of n <= 65535 bytes sent on a WebSocket connection,
   the frame written has byte 0 = 0x81; for n <= 125 byte 1 = n and n + 2
   bytes in all; otherwise byte 1 = 126, bytes 2-3 = n big-endian and n + 4
   bytes in all; byte 1 never has the mask bit; the payload is the message. *)
C17_FrameFormat ==
    (WsSendOnWebSocket /\ ~fault /\ last.message.len <= 65535) =>
        /\ last.written = 1
        /\ LET n == last.message.len
               w == last.frames[1]
           IN /\ w.header[1] = 129
              /\ w.header[2] < 128
              /\ n <= 125 => (w.header = <<129, n>> /\ w.len = n + 2)
              /\ n > 125 => /\ Len(w.header) = 4
                            /\ w.header[2] = 126
                            /\ w.header[3] * 256 + w.header[4] = n
                            /\ w.header[3] < 256 /\ w.header[4] < 256
                            /\ w.len = n + 4
              /\ w.offset = Len(w.header)
              /\ w.payload = last.message

\* Frames of both length classes have been written
C17_Witness ==
    /\ WsSendOnWebSocket
    /\ ~fault
    /\ last.message.len = 65535
    /\ Len(wire) = 2
    /\ wire[1].header = <<129, 125>>
    /\ wire[2].header = <<129, 126, 255, 255>>

----------------------------------------------------------------------------
(* Rate limits: reavix_set_rate_limits *)

\* The one configuration an application sets
Limit60 == [requests_per_minute |-> 60, burst_limit |-> 10, enabled |-> TRUE]

\* The patterns, a strict prefix of them (/users), a concrete path that
\* matches through the parameter child (/users/42), and a path outside the trie
RatePaths == Patterns \cup {ReqUsers, ReqUsers42, <<"/", "x">>}

\* The loop of reavix_set_rate_limits from node `current`: static children
\* by strcmp, else the parameter child whatever the segment is; the
\* configuration is stored in the node the walk ends at
RECURSIVE RateWalk(_, _, _)
RateWalk(current, segs, config) ==
    IF segs = <<>>
    THEN [node |-> [current EXCEPT !.rate_limit = config], found |-> TRUE,
          fault |-> FALSE]
    ELSE
    LET segment == Head(segs)
        found == FindChild(current, segment)
    IN
    IF ScanFaults(current, segment)
    THEN [node |-> current, found |-> FALSE, fault |-> TRUE]
    ELSE IF found # 0
    THEN LET r == RateWalk(current.children[found], Tail(segs), config)
         IN [node |-> [current EXCEPT !.children[found] = r.node],
             found |-> r.found, fault |-> r.fault]
    ELSE IF current.param_child # <<>>
    THEN LET r == RateWalk(current.param_child[1], Tail(segs), config)
         IN [node |-> [current EXCEPT !.param_child = <<r.node>>],
             found |-> r.found, fault |-> r.fault]
    ELSE [node |-> current, found |-> FALSE, fault |-> FALSE]

\* The trie with every rate limit cleared: its segments, handlers and shape
RECURSIVE Structure(_)
Structure(node) ==
    [node EXCEPT !.rate_limit = NoRateLimit,
                 !.children = [i \in 1..Len(node.children) |->
                                  Structure(node.children[i])],
                 !.param_child = IF node.param_child = <<>> THEN <<>>
                                 ELSE <<Structure(node.param_child[1])>>]

\* reavix_set_rate_limits(path, config), under the mutex; strdup_ok is the
\* result of strdup(path)
reavix_set_rate_limits(path, config, strdup_ok) ==
    /\ ~fault
    /\ pc = "idle"
    /\ UNCHANGED <<routes, route_count, route_capacity, alloc_failed,
                   registry_vars, linked, sdk, ipc_vars, sync_vars, request_vars>>
    /\ \E r \in {IF strdup_ok THEN RateWalk(root_node, strtok_r(path), config)
                 ELSE [node |-> root_node, found |-> FALSE, fault |-> FALSE]} :
       /\ root_node' = (IF r.found THEN r.node ELSE root_node)
       /\ fault' = r.fault
       /\ last' = [op |-> "reavix_set_rate_limits", path |-> path,
                   strdup_ok |-> strdup_ok, found |-> r.found,
                   registered |-> \E i \in 1..route_count : routes[i].path = path,
                   attached |-> /\ NodeOf(root_node', strtok_r(path)) # <<>>
                                /\ NodeOf(root_node', strtok_r(path))[1].rate_limit
                                       = config,
                   limits_changed |-> root_node' # root_node,
                   structure_kept |-> Structure(root_node') = Structure(root_node),
                   table_kept |-> <<routes', route_count', route_capacity'>>
                                  = <<routes, route_count, route_capacity>>]

SetRateLimits ==
    \E path \in RatePaths, strdup_ok \in BOOLEAN :
        reavix_set_rate_limits(path, Limit60, strdup_ok)

RateNext == InitCall \/ RouteNoFail \/ SetRateLimits

RateSpec == Init /\ [][RateNext]_vars

(* C19: reavix_set_rate_limits(path, config) stores the configuration in the
   terminal node of path when path is a registered route pattern and strdup
   succeeded; for an unregistered path it changes no rate limit anywhere; in
   every case the handlers, the shape of the trie and the route table stay
   as they were. *)
C19_OnlyRegisteredPaths ==
    last.op = "reavix_set_rate_limits" =>
        /\ (last.registered /\ last.strdup_ok) => last.attached
        /\ ~last.registered => ~last.limits_changed
        /\ last.structure_kept
        /\ last.table_kept

----------------------------------------------------------------------------
(* The router lock during dispatch: handle_request, dispatch_request and
   router_match with its caller *)

DispatchFns == {"handle_request", "dispatch_request", "router_match"}

\* How a lookup ends: a route is found, none is, or strdup(path) returns NULL
Outcomes(fn) ==
    IF fn = "dispatch_request" THEN {"match", "not_found"}
    ELSE {"match", "not_found", "alloc_fail"}

\* handle_request with the unlock moved behind the handler call
handle_request_late_unlock(outcome) ==
    IF outcome = "match"
    THEN <<"lock", "lookup", "handler", "unlock", "post", "return">>
    ELSE <<"lock", "lookup", "unlock", "not_found", "post", "return">>

\* handle_request from the lock on: trie_match between lock and unlock (its
\* strdup failure makes it return false), then the handler or the 404, the
\* post handlers, and the return
handle_request_steps(outcome) ==
    IF outcome = "match"
    THEN <<"lock", "lookup", "unlock", "handler", "post", "return">>
    ELSE <<"lock", "lookup", "unlock", "not_found", "post", "return">>

\* dispatch_request: the table scan under the lock; on a hit the handler is
\* copied, the lock released, the handler called
dispatch_request_steps(outcome) ==
    IF outcome = "match"
    THEN <<"lock", "lookup", "unlock", "handler", "return">>
    ELSE <<"lock", "lookup", "unlock", "return">>

\* router_match: strdup and the walk under the lock, the method check after
\* the unlock; its caller invokes the handler it returned
router_match_steps(outcome) ==
    IF outcome = "alloc_fail" THEN <<"lock", "strdup", "unlock", "return">>
    ELSE IF outcome = "not_found"
    THEN <<"lock", "strdup", "lookup", "unlock", "return">>
    ELSE <<"lock", "strdup", "lookup", "unlock", "verify", "return", "handler">>

dispatch_steps(fn, outcome) ==
    CASE fn = "handle_request" -> handle_request_steps(outcome)
      [] fn = "dispatch_request" -> dispatch_request_steps(outcome)
      [] OTHER -> router_match_steps(outcome)

\* A thread starts dispatching a request
begin_dispatch(t, fn, outcome) ==
    /\ threads[t].fn = "none"
    /\ threads' = [threads EXCEPT ![t] = [fn |-> fn,
                                          steps |-> dispatch_steps(fn, outcome),
                                          trace |-> <<>>]]
    /\ UNCHANGED mutex

\* The thread takes its next step; pthread_mutex_lock waits while another
\* thread holds the mutex
dispatch_step(t) ==
    /\ threads[t].steps # <<>>
    /\ \E step \in {Head(threads[t].steps)} :
       /\ step = "lock" => mutex = NULL
       /\ mutex' = CASE step = "lock" -> t
                     [] step = "unlock" -> NULL
                     [] OTHER -> mutex
       /\ threads' = [threads EXCEPT
              ![t].steps = Tail(@),
              ![t].trace = Append(@, [step |-> step, held |-> mutex' = t])]

\* The dispatch has returned and the thread is free for the next request
end_dispatch(t) ==
    /\ threads[t].fn # "none"
    /\ threads[t].steps = <<>>
    /\ threads' = [threads EXCEPT ![t] = IdleThread]
    /\ UNCHANGED mutex

DispatchStep(A) ==
    /\ pc = "idle"
    /\ A
    /\ UNCHANGED <<routing_vars, registry_vars, linked, sdk, request_vars, ipc_vars,
                   view, callers>>

BeginDispatch ==
    DispatchStep(\E t \in Threads, fn \in DispatchFns :
                    \E outcome \in Outcomes(fn) : begin_dispatch(t, fn, outcome))
StepDispatch == DispatchStep(\E t \in Threads : dispatch_step(t))
EndDispatch == DispatchStep(\E t \in Threads : end_dispatch(t))

DispatchNext == BeginDispatch \/ StepDispatch \/ EndDispatch

DispatchSpec == Init /\ [][DispatchNext]_vars

\* The steps a dispatch may take with the router lock held
UnderLock == {"lock", "strdup", "lookup"}

(* C20: during dispatch the router lock is held only for the lookup: it is
   held during the lookup, released before the handler (or the 404 reply) is
   invoked on every path, and not held by the thread once its dispatch has
   run to the end. *)
C20_LockOnlyForLookup ==
    \A t \in Threads :
        /\ \A i \in 1..Len(threads[t].trace) :
              LET e == threads[t].trace[i] IN
              /\ e.held => e.step \in UnderLock
              /\ e.step \in {"strdup", "lookup"} => e.held
              /\ e.step \in {"handler", "not_found", "return"} => ~e.held
        /\ (threads[t].fn # "none" /\ threads[t].steps = <<>>) => mutex # t

\* One thread runs a handler while the other holds the lock for its lookup
C20_Witness ==
    /\ threads["t1"].trace # <<>>
    /\ threads["t1"].trace[Len(threads["t1"].trace)].step = "handler"
    /\ mutex = "t2"
    /\ threads["t2"].trace # <<>>
    /\ threads["t2"].trace[Len(threads["t2"].trace)].step = "lookup"

----------------------------------------------------------------------------
(* Compression in res_send_json *)

CompressionTypes == {"none", "gzip", "brotli", "deflate"}

SetCompression == \E type \in CompressionTypes :
    ApiCall("res_compress", res_compress(res, type), <<>>)

\* res_send_json(res, "{}") of backend/src/libreavix.c under every outcome of
\* compress_data and of the allocation behind the Content-Encoding header
SendJsonCompressed ==
    /\ pc = "idle"
    /\ Len(res.headers) < MaxHeaders
    /\ UNCHANGED <<routes, route_count, route_capacity, root_node, fault,
                   alloc_failed, registry_vars, linked, sdk, ipc_vars, sync_vars, pc,
                   idx, req, calls>>
    /\ \E k, deflate_ok, realloc_ok \in BOOLEAN :
       \E r \in {res_send_json_with(res, Bodies.json, k, deflate_ok, realloc_ok)} :
          /\ res' = r.res
          /\ wire' = wire \o r.writes
          /\ last' = [op |-> "res_send_json_with", before |-> res,
                      written |-> Len(r.writes), frames |-> r.writes,
                      json |-> Bodies.json, deflate_ok |-> deflate_ok,
                      realloc_ok |-> realloc_ok]

CompressNext == Connect \/ NewResponseCall \/ SetCompression \/ SendJsonCompressed

CompressSpec == Init /\ [][CompressNext]_vars

\* The header block a call formatted names Content-Encoding
HasEncodingLine(frames) ==
    \E i \in 1..Len(frames[1].image) : frames[1].image[i] = "Content-Encoding"

\* The Content-Length line a call formatted
LengthOf(frames) ==
    LET img == frames[1].image
        at == CHOOSE i \in 1..Len(img) : img[i] = "Content-Length: "
    IN img[at + 1]

\* The body bytes a call handed to the stream
BodyOf(frames) == IF Len(frames) >= 2 THEN frames[2].bytes ELSE <<>>

(* C21: when compression is selected and fails, the response goes out with
   the uncompressed body, its length as Content-Length and no
   Content-Encoding header; and a sent response carries a Content-Encoding
   header exactly when the body transmitted is the compressed one. *)
C21_EncodingMatchesBody ==
    (last.op = "res_send_json_with" /\ last.written > 0) =>
        /\ (last.before.compression # "none" /\ ~last.deflate_ok) =>
              /\ BodyOf(last.frames) = last.json
              /\ LengthOf(last.frames) = ToString(PartsLen(last.json))
              /\ ~HasEncodingLine(last.frames)
        /\ HasEncodingLine(last.frames) <=> BodyOf(last.frames) # last.json

----------------------------------------------------------------------------
(* The cap on captured parameters *)

MaxPatternParams == 11     \* the most parameter segments of one pattern

\* "/:a/:a/.../:a" with n parameter segments; the same text serves as the
\* request path, since trie_match of backend/src takes the parameter child
\* only for a request segment that starts with ':'
RECURSIVE ParamPath(_)
ParamPath(n) == IF n = 0 THEN <<>> ELSE <<"/", ":", "a">> \o ParamPath(n - 1)

\* One route with n parameter segments is registered in an empty table
RouteParams ==
    /\ route_count = 0
    /\ \E n \in 1..MaxPatternParams, m \in Methods, h \in Handlers :
          reavix_route(m, ParamPath(n), h, 0)

LookupParams == \E n \in 1..MaxPatternParams : lookup(ParamPath(n))

CapNext == InitCall \/ RouteParams \/ LookupParams

CapSpec == Init /\ [][CapNext]_vars

\* The route whose pattern is the path just looked up
RouteLookedUp == {i \in 1..route_count : routes[i].path = last.path}

Least(a, b) == IF a <= b THEN a ELSE b

(* C22: for the one registered route, whose pattern has n parameter
   segments, a lookup of a matching path succeeds and returns its handler
   with the first min(n, 10) parameters captured and no more than 10
   reported, also when n > 10. *)
C22_CaptureCapped ==
    (last.op = "trie_match" /\ RouteLookedUp # {}) =>
        LET n == Len(strtok_r(last.path)) IN
        /\ last.ret
        /\ \E i \in RouteLookedUp : last.handler = routes[i].handler
        /\ Len(last.params) = Least(n, MAX_PARAMS)
        /\ \A k \in 1..Len(last.params) :
              last.params[k] = [name |-> <<"a">>, value |-> <<":", "a">>]

----------------------------------------------------------------------------
(* The stand-alone router: router_init, router_add, router_match.          *)
(* router.root is a pointer: <<>> while NULL, <<node>> once allocated and  *)
(* <<node, "freed">> when router_init has freed it and kept the pointer.   *)
(* The Router's fields are held in root_node, routes, route_count and      *)
(* route_capacity.                                                         *)

\* / , /4 , /4/5 , /4/p , /:i , /:i/:j , /:i/p
ReqRoot == <<"/">>
Req4 == <<"/", "4">>
Req45 == <<"/", "4", "/", "5">>
Req4Posts == <<"/", "4", "/", "p">>
PathId == <<"/", ":", "i">>
PathIdJ == <<"/", ":", "i", "/", ":", "j">>
PathIdPosts == <<"/", ":", "i", "/", "p">>

RouterPatterns == {PathId, PathIdJ, PathIdPosts, PathUsersId, PathUsersMe}
RouterRequests == {ReqRoot, Req4, Req45, Req4Posts, ReqUsers42}

Freed(root) == Len(root) = 2

RouterCall == [op |-> "none", ret |-> FALSE, method |-> NULL, path |-> <<>>,
               handler |-> NULL, params |-> <<>>, why |-> ""]

RouterStart ==
    /\ routes = <<>>
    /\ route_count = 0
    /\ route_capacity = 0
    /\ root_node = <<>>
    /\ fault = FALSE
    /\ alloc_failed = FALSE
    /\ last = RouterCall
    /\ ArenaInit
    /\ ChannelInit
    /\ DispatchInit
    /\ middleware = <<>>
    /\ plugins = <<>>
    /\ clients = <<>>
    /\ client_capacity = 0
    /\ pc = "idle"
    /\ idx = 0
    /\ req = NoRequest
    /\ res = NewResponse(NULL)
    /\ calls = <<>>
    /\ wire = <<>>
    /\ linked = "src"
    /\ SdkInit

\* router_init(initial_capacity); fail = 1: calloc of the root returns NULL,
\* fail = 2: malloc of the table returns NULL, the root is freed and the
\* pointer kept
router_init(initial_capacity, fail) ==
    /\ ~fault
    /\ IF root_node # <<>>
       THEN /\ last' = [RouterCall EXCEPT !.op = "router_init", !.why = "again"]
            /\ UNCHANGED <<routes, route_count, route_capacity, root_node>>
       ELSE IF fail = 1
       THEN /\ last' = [RouterCall EXCEPT !.op = "router_init", !.why = "alloc"]
            /\ UNCHANGED <<routes, route_count, route_capacity, root_node>>
       ELSE IF fail = 2
       THEN /\ root_node' = <<ZeroRoot, "freed">>
            /\ last' = [RouterCall EXCEPT !.op = "router_init", !.why = "alloc"]
            /\ UNCHANGED <<routes, route_count, route_capacity>>
       ELSE /\ root_node' = <<ZeroRoot>>
            /\ routes' = <<>>
            /\ route_capacity' = initial_capacity
            /\ route_count' = 0
            /\ last' = [RouterCall EXCEPT !.op = "router_init", !.ret = TRUE]
    /\ alloc_failed' = (alloc_failed \/ (root_node = <<>> /\ fail # 0))
    /\ UNCHANGED <<fault, registry_vars, linked, sdk, ipc_vars, sync_vars, request_vars>>

\* The loop of router_add from node `current` over the remaining segments.
\* A new static child is stored at children[child_count] of its parent and
\* the count that is then incremented is the new child's own.
RECURSIVE AddWalk(_, _, _, _)
AddWalk(current, segs, handler, fail) ==
    IF segs = <<>>
    THEN [node |-> [current EXCEPT !.handler = handler], ok |-> TRUE, fault |-> FALSE]
    ELSE
    LET segment == Head(segs)
        is_param == IsParamSegment(segment)
        found == IF is_param THEN 0 ELSE FindChild(current, segment)
    IN
    IF ~is_param /\ ScanFaults(current, segment)
    THEN [node |-> current, ok |-> FALSE, fault |-> TRUE]
    ELSE IF found # 0
    THEN LET r == AddWalk(current.children[found], Tail(segs), handler, fail)
         IN [node |-> [current EXCEPT !.children[found] = r.node],
             ok |-> r.ok, fault |-> r.fault]
    ELSE IF fail = 1                             \* create_trie_node returned NULL
    THEN [node |-> current, ok |-> FALSE, fault |-> FALSE]
    ELSE IF is_param
    THEN LET r == AddWalk(create_trie_node(segment), Tail(segs), handler, Dec(fail))
         IN [node |-> [current EXCEPT !.param_child = <<r.node>>],
             ok |-> r.ok, fault |-> r.fault]
    ELSE IF Dec(fail) = 1                        \* realloc returned NULL
    THEN [node |-> current, ok |-> FALSE, fault |-> FALSE]
    ELSE LET kept == SubSeq(current.children, 1, current.child_count)
             r == AddWalk([create_trie_node(segment) EXCEPT !.child_count = 1],
                          Tail(segs), handler, Dec(Dec(fail)))
         IN [node |-> [current EXCEPT !.children = Append(kept, r.node)],
             ok |-> r.ok, fault |-> r.fault]

\* The body of router_add under router.mutex. fail = 1: realloc of the table,
\* 2: strdup(path), from 3 on: the allocations of the walk. The table entry
\* is appended before the trie is touched.
AddOutcome(method, path, handler, fail, root_intact) ==
    LET same == [routes |-> routes, route_count |-> route_count,
                 route_capacity |-> route_capacity, root_node |-> root_node,
                 fault |-> FALSE, ret |-> FALSE, why |-> ""]
        grow == route_count >= route_capacity
        entered == [same EXCEPT
                      !.routes = Append(routes, RouteEntry(method, path, handler)),
                      !.route_count = route_count + 1,
                      !.route_capacity = IF grow THEN route_capacity * 2
                                         ELSE route_capacity]
    IN
    IF method = NULL \/ path = NULL \/ handler = NULL
    THEN [same EXCEPT !.why = "null"]
    ELSE IF root_node = <<>> \/ (Freed(root_node) /\ ~root_intact)
    THEN [same EXCEPT !.fault = TRUE]
    ELSE IF IsDuplicate(method, path)
    THEN [same EXCEPT !.why = "duplicate"]
    ELSE IF grow /\ fail = 1
    THEN [same EXCEPT !.why = "alloc"]
    ELSE IF fail = 2
    THEN [entered EXCEPT !.why = "alloc"]
    ELSE LET r == AddWalk(root_node[1], strtok_r(path), handler,
                          IF fail >= 3 THEN fail - 2 ELSE 0) IN
         [entered EXCEPT !.root_node = [root_node EXCEPT ![1] = r.node],
                         !.fault = r.fault, !.ret = r.ok,
                         !.why = IF r.ok THEN "" ELSE "alloc"]

router_add(method, path, handler, fail, root_intact) ==
    /\ ~fault
    /\ \E r \in {AddOutcome(method, path, handler, fail, root_intact)} :
       /\ routes' = r.routes
       /\ route_count' = r.route_count
       /\ route_capacity' = r.route_capacity
       /\ root_node' = r.root_node
       /\ fault' = r.fault
       /\ alloc_failed' = (alloc_failed \/ r.why = "alloc")
       /\ last' = [RouterCall EXCEPT !.op = "router_add", !.ret = r.ret,
                                     !.why = r.why, !.method = method,
                                     !.path = path, !.handler = handler]
    /\ UNCHANGED <<registry_vars, linked, sdk, ipc_vars, sync_vars, request_vars>>

\* The loop of router_match: static children first, then the parameter
\* child, whose capture is stored only while fewer than MAX_PARAMS are held
RECURSIVE RouterWalk(_, _, _)
RouterWalk(current, segs, params) ==
    IF segs = <<>>
    THEN [found |-> TRUE, handler |-> current.handler, params |-> params,
          fault |-> FALSE]
    ELSE
    LET segment == Head(segs)
        hit == FindChild(current, segment)
    IN
    IF ScanFaults(current, segment)
    THEN [found |-> FALSE, handler |-> NULL, params |-> params, fault |-> TRUE]
    ELSE IF hit # 0
    THEN RouterWalk(current.children[hit], Tail(segs), params)
    ELSE IF current.param_child # <<>>
    THEN RouterWalk(current.param_child[1], Tail(segs),
                    IF Len(params) < MAX_PARAMS
                    THEN Append(params,
                                [name |-> Tail(current.param_child[1].segment),
                                 value |-> segment])
                    ELSE params)
    ELSE [found |-> FALSE, handler |-> NULL, params |-> params, fault |-> FALSE]

\* router_match(method, path, params, &param_count, &handler): the walk under
\* the mutex, then the method check on the table by handler and method.
\* *handler is written only when the walk ends on a node.
MatchOutcome(method, path, strdup_ok, root_intact) ==
    LET none == [ret |-> FALSE, handler |-> NULL, params |-> <<>>, fault |-> FALSE]
    IN
    IF path = NULL THEN none
    ELSE IF root_node = <<>> \/ (Freed(root_node) /\ ~root_intact)
    THEN [none EXCEPT !.fault = TRUE]
    ELSE IF ~strdup_ok THEN none
    ELSE LET w == RouterWalk(root_node[1], strtok_r(path), <<>>) IN
         IF ~w.found
         THEN [none EXCEPT !.params = w.params, !.fault = w.fault]
         ELSE [ret |-> IF method = NULL THEN TRUE
                       ELSE \E i \in 1..route_count :
                               /\ routes[i].handler = w.handler
                               /\ routes[i].method = method,
               handler |-> w.handler, params |-> w.params, fault |-> FALSE]

router_match(method, path, strdup_ok, root_intact) ==
    /\ ~fault
    /\ \E r \in {MatchOutcome(method, path, strdup_ok, root_intact)} :
       /\ fault' = r.fault
       /\ alloc_failed' = (alloc_failed \/ ~strdup_ok)
       /\ last' = [RouterCall EXCEPT !.op = "router_match", !.ret = r.ret,
                                     !.method = method, !.path = path,
                                     !.handler = r.handler, !.params = r.params,
                                     !.why = IF strdup_ok THEN "" ELSE "alloc"]
    /\ UNCHANGED <<routes, route_count, route_capacity, root_node,
                   registry_vars, linked, sdk, ipc_vars, sync_vars, request_vars>>

\* Whether the freed root still reads as it was left matters only once
\* router_init has freed it
RootReads == IF root_node # <<>> /\ Freed(root_node) THEN BOOLEAN ELSE {TRUE}

RouterInit ==
    \E capacity \in 1..MaxRoutes, fail \in 0..2 :
        /\ ~alloc_failed
        /\ router_init(capacity, fail)

\* A registration after router_init whose allocations all succeed, in a
\* table of at most MaxRoutes entries
RouterAdd ==
    /\ root_node # <<>>
    /\ route_count < MaxRoutes
    /\ \E m \in Methods, p \in RouterPatterns, h \in Handlers, k \in RootReads :
          router_add(m, p, h, 0, k)

\* A registration in which one allocation returns NULL
RouterAddFails ==
    /\ root_node # <<>>
    /\ route_count < MaxRoutes
    /\ ~alloc_failed
    /\ \E m \in Methods, p \in RouterPatterns, h \in Handlers :
          \E fail \in 1..(2 + SegmentAllocs(strtok_r(p))) :
              router_add(m, p, h, fail, TRUE)

RouterMatch ==
    /\ root_node # <<>>
    /\ \E m \in Methods \cup {NULL}, p \in RouterRequests, k \in RootReads :
          router_match(m, p, TRUE, k)

RouterNext == RouterInit \/ RouterAdd \/ RouterAddFails \/ RouterMatch

RouterSpec == RouterStart /\ [][RouterNext]_vars

(* C23: a lookup that reports a match has reached a node with a handler: it
   never returns true with a null handler, as for '/' with nothing
   registered or '/4' when only '/:i/:j' is. *)
C23_NoNullHandlerMatch ==
    (last.op = "router_match" /\ last.ret) => last.handler # NULL

(* C24: a lookup qualified by a method reports a match only when some
   route registered under that method has a pattern the path matches; the
   handler being registered under the method for another path is not
   enough. *)
C24_MethodQualified ==
    (last.op = "router_match" /\ last.method # NULL /\ last.ret) =>
        \E i \in 1..route_count :
            /\ routes[i].method = last.method
            /\ PatternMatches(routes[i].path, last.path)

----------------------------------------------------------------------------
(* Re-initialising the arena *)

\* ipc_arena_init: both offsets and the whole buffer back to zero; the
\* record of calls that returned starts afresh
ipc_arena_init ==
    /\ arena' = [write_offset |-> 0, read_offset |-> 0, buffer |-> <<>>,
                 overrun |-> FALSE]
    /\ regions' = <<>>
    /\ reads' = [op |-> "none"]
    /\ UNCHANGED writers

\* ipc_arena_init while no call of ipc_arena_allocate is in progress
ArenaReset ==
    ArenaStep(/\ arena.write_offset # 0
              /\ \A t \in Writers : writers[t].pc = "idle"
              /\ ipc_arena_init)

\* One writer and re-initialisation
ResetArenaNext == Allocate1 \/ Write1 \/ Store1 \/ ArenaReset

ResetArenaSpec == Init /\ [][ResetArenaNext]_vars

\* Two writers and re-initialisation
SharedResetNext ==
    \/ SharedAllocate1 \/ Write1 \/ Store1
    \/ SharedAllocate2 \/ Write2 \/ Store2
    \/ ArenaReset

SharedResetSpec == Init /\ [][SharedResetNext]_vars

\* The step is a return of ipc_arena_allocate: the record of calls grows
Returned == Len(regions') = Len(regions) + 1

(* C25: apart from ipc_arena_init, no step lowers the write offset; a call
   of ipc_arena_allocate that returns a pointer leaves the offset strictly
   higher than it found it, one that returns NULL leaves offset and buffer
   as they were; and the regions handed out lie in the buffer in the order
   in which their calls returned. *)
C25_OffsetMonotone ==
    [][/\ (arena'.write_offset < arena.write_offset) =>
              (arena'.write_offset = 0 /\ arena'.buffer = <<>>)
       /\ (Returned /\ regions'[Len(regions')].ptr # 0) =>
              arena'.write_offset > arena.write_offset
       /\ (Returned /\ regions'[Len(regions')].ptr = 0) => arena' = arena
       /\ \A j, k \in 1..Len(regions') :
              (j < k /\ regions'[j].ptr # 0 /\ regions'[k].ptr # 0) =>
                  regions'[j].offset < regions'[k].offset]_vars

----------------------------------------------------------------------------
(* Who touches the connection set, and under which lock *)

ClientSetFns == {"on_connection", "send_response", "reavix_ws_send"}

\* on_connection takes reavix_state.mutex around growing the array and
\* appending the context
on_connection_steps ==
    <<"accept", "lock", "grow", "append", "unlock", "read_start", "return">>

\* send_response: find_client_context, then the headers and the writes
send_response_steps == <<"find", "format", "write", "return">>

\* reavix_ws_send: find_client_context, then the frame and the write
reavix_ws_send_steps == <<"find", "frame", "write", "return">>

client_set_steps(fn) ==
    CASE fn = "on_connection" -> on_connection_steps
      [] fn = "send_response" -> send_response_steps
      [] OTHER -> reavix_ws_send_steps

\* A thread enters one of the functions
begin_access(t, fn) ==
    /\ threads[t].fn = "none"
    /\ threads' = [threads EXCEPT ![t] = [fn |-> fn,
                                          steps |-> client_set_steps(fn),
                                          trace |-> <<>>]]
    /\ UNCHANGED mutex

BeginAccess ==
    DispatchStep(\E t \in Threads, fn \in ClientSetFns : begin_access(t, fn))

ClientSetNext == BeginAccess \/ StepDispatch \/ EndDispatch

ClientSetSpec == Init /\ [][ClientSetNext]_vars

\* The steps that read or write reavix_state.clients / client_count
SetAccess == {"grow", "append", "find"}

(* C26: every step that grows, appends to or searches the connection set is
   taken by a thread that holds the lock, so no search runs while another
   thread is between growing the array and releasing the lock. *)
C26_SetUnderLock ==
    \A t \in Threads :
        \A i \in 1..Len(threads[t].trace) :
            threads[t].trace[i].step \in SetAccess => threads[t].trace[i].held

----------------------------------------------------------------------------
(* Initialising twice *)

\* reavix_init has succeeded before: the table has its capacity
Initialized == route_capacity > 0

(* C27: reavix_init(0) returns false, and a call of reavix_init after one
   that succeeded returns false and leaves the routes, the route count and
   the capacity as they were. *)
C27_InitOnce ==
    [][last'.op = "reavix_init" =>
          /\ last'.why = "zero" => ~last'.ret
          /\ Initialized =>
                /\ ~last'.ret
                /\ <<routes', route_count', route_capacity'>>
                       = <<routes, route_count, route_capacity>>]_vars

----------------------------------------------------------------------------
(* The framer on responses built field by field *)

StatusCodes == {200, 404, 418}
MappedCodes == {200, 201, 204, 400, 401, 403, 404, 500, 503}
HeaderNames == {"X-Tag", "Content-Length"}

\* res->status_code = code, as handle_request and handlers assign it
SetStatusCall ==
    \E code \in StatusCodes :
        /\ res.status_code # code
        /\ ApiCall("status_code", [res EXCEPT !.status_code = code], <<>>)

SetAnyHeaderCall ==
    /\ Len(res.headers) < MaxHeaders
    /\ \E name \in HeaderNames :
          ApiCall("res_set_header", res_set_header(res, name, "7"), <<>>)

\* send_response(res), with the frames it hands to uv_write kept
SendResponseCall ==
    /\ pc = "idle"
    /\ UNCHANGED <<routes, route_count, route_capacity, root_node, fault,
                   alloc_failed, registry_vars, linked, sdk, ipc_vars, sync_vars, pc,
                   idx, req, calls>>
    /\ \E k \in BOOLEAN : \E r \in {send_response(res, k)} :
          /\ res' = r.res
          /\ wire' = wire \o r.writes
          /\ last' = [op |-> "send_response", before |-> res,
                      written |-> Len(r.writes), frames |-> r.writes]

FramerNext ==
    \/ Connect \/ NewResponseCall \/ SetStatusCall \/ SetAnyHeaderCall
    \/ WriteCall \/ SendResponseCall

FramerSpec == Init /\ [][FramerNext]_vars

\* The body bytes of a send: the second write, when there is one
BodySent(frames) == IF Len(frames) = 2 THEN frames[2].bytes ELSE <<>>

\* How many Content-Length lines the head holds
LengthLines(head) ==
    Cardinality({i \in 1..Len(head) :
                    head[i] \in {"Content-Length", "Content-Length: "}})

\* The head as the wire format has it for a response and its body
WireHead(response, body) ==
    <<"HTTP/1.1 ", ToString(response.status_code), " ",
      IF response.status_code \in MappedCodes
      THEN get_status_text(response.status_code) ELSE "Unknown", "\r\n">>
    \o Flatten([i \in 1..Len(response.headers) |-> HeaderLine(response.headers[i])])
    \o LengthLine(PartsLen(body))

(* C28: the bytes send_response transmits are the status line with the
   table's reason phrase ('Unknown' for a code not in the table), every
   header of the response once in insertion order, one Content-Length line
   whose value is the number of body bytes transmitted and no other, the
   blank line, and the body. *)
C28_WireFormat ==
    (last.op = "send_response" /\ last.written > 0) =>
        /\ last.frames[1].bytes = WireHead(last.before, BodySent(last.frames))
        /\ LengthLines(last.frames[1].bytes) = 1
        /\ BodySent(last.frames) = last.before.content

----------------------------------------------------------------------------
(* Headers as an ordered mapping *)

StoredNames == {"X-Tag", "Content-Type"}
AskedNames == {"x-tag", "content-type", "X-Tag"}

SetNamedHeaderCall ==
    /\ Len(res.headers) < MaxHeaders
    /\ \E name \in StoredNames, value \in {"a", "b"} :
          ApiCall("res_set_header", res_set_header(res, name, value), <<>>)

\* res_remove_header(res, name), the name asked for kept
RemoveNamedCall ==
    /\ pc = "idle"
    /\ UNCHANGED <<routes, route_count, route_capacity, root_node, fault,
                   alloc_failed, registry_vars, linked, sdk, ipc_vars, sync_vars, pc,
                   idx, req, calls, wire>>
    /\ \E name \in AskedNames, k \in BOOLEAN :
          /\ res' = res_remove_header(res, name, k)
          /\ last' = [op |-> "res_remove_header", before |-> res, written |-> 0,
                      name |-> name]

\* res_has_header(res, name) and what it returned
HasHeaderCall ==
    /\ pc = "idle"
    /\ UNCHANGED <<routes, route_count, route_capacity, root_node, fault,
                   alloc_failed, registry_vars, linked, sdk, ipc_vars, sync_vars, pc,
                   idx, req, calls, wire, res>>
    /\ \E name \in AskedNames :
          last' = [op |-> "res_has_header", before |-> res, written |-> 0,
                   name |-> name, ret |-> res_has_header(res, name)]

HeaderNext ==
    NewResponseCall \/ SetNamedHeaderCall \/ RemoveNamedCall \/ HasHeaderCall

HeaderSpec == Init /\ [][HeaderNext]_vars

\* The positions of the headers whose name is `name`, case ignored
Named(headers, name) ==
    {i \in 1..Len(headers) : headers[i].name # "?" /\ Lower(headers[i].name) = Lower(name)}

\* The list without its first header of that name
WithoutFirst(headers, name) ==
    IF Named(headers, name) = {} THEN headers
    ELSE LET i == CHOOSE k \in Named(headers, name) :
                      \A j \in Named(headers, name) : k <= j
         IN SubSeq(headers, 1, i - 1) \o SubSeq(headers, i + 1, Len(headers))

(* C29: res_remove_header(name) leaves the header list without its first
   header of that name, case ignored, every other header unchanged and in
   order, and the list as it was when none has the name; res_has_header(name)
   returns true exactly when some header has that name. *)
C29_OrderedMapping ==
    /\ last.op = "res_remove_header" =>
          res.headers = WithoutFirst(last.before.headers, last.name)
    /\ last.op = "res_has_header" =>
          (last.ret <=> Named(last.before.headers, last.name) # {})

----------------------------------------------------------------------------
(* Inserting a pattern the trie already holds *)

\* The trie with the handler of the terminal node of `segs` replaced and
\* everything else as it is
RECURSIVE WithTerminalHandler(_, _, _)
WithTerminalHandler(node, segs, handler) ==
    IF segs = <<>> THEN [node EXCEPT !.handler = handler]
    ELSE IF IsParamSegment(Head(segs))
    THEN [node EXCEPT !.param_child =
              <<WithTerminalHandler(node.param_child[1], Tail(segs), handler)>>]
    ELSE [node EXCEPT !.children[FindChild(node, Head(segs))] =
              WithTerminalHandler(node.children[FindChild(node, Head(segs))],
                                  Tail(segs), handler)]

\* The pattern is in the trie: its nodes are there and the last has a handler
Present(root, path) ==
    /\ NodeOf(root, strtok_r(path)) # <<>>
    /\ NodeOf(root, strtok_r(path))[1].handler # NULL

(* C30: a registration that inserts into the trie a pattern already present
   leaves the trie as it was but for the handler of the pattern's terminal
   node: no node's rate limit, handler or subtree is otherwise changed, the
   terminal node's and the parameter nodes' on the path included. *)
C30_ReinsertSetsHandlerOnly ==
    [][(/\ last'.op = "reavix_route" /\ last'.ret
        /\ route_count' = route_count + 1
        /\ Present(root_node, routes'[route_count'].path)) =>
           root_node' = WithTerminalHandler(root_node,
                                            strtok_r(routes'[route_count'].path),
                                            routes'[route_count'].handler)]_vars

----------------------------------------------------------------------------
(* Progress on the spin channel *)

\* Every step a caller inside withSharedBuffer can take by itself
CallerStep(c) ==
    ChannelStep(\/ try_lock(c) \/ wait_lock(c)
                \/ \E fits \in BOOLEAN : op_set(c, fits)
                \/ op_signal(c) \/ op_poll(c) \/ op_decode(c)
                \/ release(c) \/ notify(c))

\* Threads are scheduled fairly and the native side answers every request,
\* so that each holder's operation ends; nobody is obliged to enter
ChannelFairness ==
    /\ \A c \in Callers : WF_vars(CallerStep(c))
    /\ WF_vars(NativeRespond)

ChannelLiveSpec == Init /\ [][ChannelNext]_vars /\ ChannelFairness

\* The callers between entering withSharedBuffer and taking the lock
Waiting == {c \in Callers : callers[c] \in {"cas", "wait", "asleep"}}

\* The callers that hold the lock: in the operation or about to store 0
Holders == {c \in Callers : callers[c] \in InOperation \cup {"release"}}

(* C31: the lock word is 1 only while some caller is in its operation or
   about to release, so every exit of withSharedBuffer, a throwing one
   included, has released it; and whenever some caller waits for the lock,
   a caller eventually holds it. *)
C31_LockProgress ==
    /\ [](view.lock = 1 => Holders # {})
    /\ (Waiting # {}) ~> (\E c \in Callers : callers[c] = "op_set")

\* The holder has stored 0 after an operation that threw before writing its
\* request and has not notified yet, while another caller sleeps on the word
C31_Witness ==
    \E c, d \in Callers :
        /\ callers[c] = "notify" /\ view.slot # c /\ view.lock = 0
        /\ callers[d] = "asleep"

----------------------------------------------------------------------------
(* A reader that goes by the write offset *)

\* The reader loads write_offset (acquire) and, finding it past the header
\* at `offset`, reads the four header words and the payload behind them
observe_message(offset) ==
    /\ offset < arena.write_offset
    /\ \E c \in {CellAt(offset)} :
          reads' = [op |-> "observe", offset |-> offset, magic |-> c.magic,
                    length |-> c.length, flags |-> c.flags, stored |-> c.checksum,
                    payload |-> c.payload, fresh |-> XXH32(c.payload, IPC_MAGIC)]
    /\ UNCHANGED <<arena, writers, regions>>

ObserveMessage ==
    ArenaStep(\E k \in 1..Len(arena.buffer) : observe_message(arena.buffer[k].offset))

\* One writer, the callers' payload writes, and the reader
ObserveNext == Allocate1 \/ Write1 \/ Store1 \/ WritePayload \/ ObserveMessage

ObserveSpec == Init /\ [][ObserveNext]_vars

\* The sizes asked for by the calls that were handed the header at `offset`
RequestedAt(offset) ==
    {regions[k].size : k \in {j \in Handed : regions[j].offset = offset}}

\* The header the reader saw is complete
HeaderComplete ==
    /\ reads.magic = IPC_MAGIC
    /\ RequestedAt(reads.offset) = {reads.length}
    /\ reads.flags = 0
    /\ reads.stored # <<>>

(* C32: a reader that finds the write offset past a message's header sees
   the header complete (magic, the requested length, flags 0, a checksum)
   and the payload in the state the stored checksum describes. *)
C32_ReaderSeesComplete ==
    reads.op = "observe" =>
        /\ HeaderComplete
        /\ reads.stored = reads.fresh

----------------------------------------------------------------------------
(* Connections that close *)

MaxConnections == 11   \* the most connections accepted in one run

\* A connection closes. reavix_state is static to libreavix.c and the only
\* statements that write clients or client_count are those of
\* on_connection: the set is left as it is. What is kept is whether the
\* closed stream still resolves to a context.
connection_closed(stream) ==
    /\ pc = "idle"
    /\ find_client_context(stream) # 0
    /\ last' = [op |-> "connection_closed", stream |-> stream,
                resolves |-> find_client_context(stream) # 0,
                tracked |-> Len(clients)]
    /\ UNCHANGED <<routes, route_count, route_capacity, root_node, fault,
                   alloc_failed, registry_vars, linked, sdk, ipc_vars, sync_vars,
                   request_vars>>

\* uv_accept hands out a fresh handle: the streams are numbered as accepted
AcceptConnection ==
    /\ Len(clients) < MaxConnections
    /\ on_connection(Len(clients) + 1)

CloseConnection == \E s \in 1..Len(clients) : connection_closed(s)

ConnectionNext == AcceptConnection \/ CloseConnection

ConnectionSpec == Init /\ [][ConnectionNext]_vars

(* C33: the connection set holds the open connections, each once, added
   with is_websocket and websocket_connected false; the stream of a
   connection that has closed no longer resolves to a context; and the
   tracked count never exceeds the capacity. *)
C33_SetHoldsOpenConnections ==
    /\ last.op = "connection_closed" => ~last.resolves
    /\ Len(clients) <= client_capacity
    /\ \A i, j \in 1..Len(clients) :
          clients[i].stream = clients[j].stream => i = j
    /\ \A i \in 1..Len(clients) :
          ~clients[i].is_websocket /\ ~clients[i].websocket_connected

----------------------------------------------------------------------------
(* The arena's arithmetic at the width of its integers.                    *)
(* size_t and uint32_t are scaled to 30 and 26 bits: both still exceed     *)
(* IPC_BUFFER_SIZE, and uint32_t is still the narrower.                    *)

SIZE_WIDTH == 1073741824     \* SIZE_MAX + 1, scaled
UINT32_WIDTH == 67108864     \* UINT32_MAX + 1, scaled

\* Sizes in the buffer's range, sizes whose rounding wraps to 0, and sizes
\* for which offset + aligned_size wraps
WideSizes == {1, 16, 100, IPC_BUFFER_SIZE - 16, IPC_BUFFER_SIZE,
              UINT32_WIDTH + 16, SIZE_WIDTH - 48, SIZE_WIDTH - 32,
              SIZE_WIDTH - 15, SIZE_WIDTH - 1}

\* (size + 15) & ~15 in size_t
AlignUpWrapped(size) == (((size + 15) % SIZE_WIDTH) \div 16) * 16

\* ipc_arena_allocate(arena, size) by one thread, every sum taken in size_t:
\* the pointer handed out (0 for NULL), the length word stored, the bytes
\* memset clears and the offset published
ipc_arena_allocate(current_offset, size) ==
    LET aligned_size == AlignUpWrapped(size) IN
    IF (current_offset + aligned_size) % SIZE_WIDTH > IPC_BUFFER_SIZE
    THEN [ptr |-> 0, aligned_size |-> aligned_size, length |-> 0, cleared |-> 0,
          write_offset |-> current_offset]
    ELSE [ptr |-> current_offset + HEADER_SIZE, aligned_size |-> aligned_size,
          length |-> size % UINT32_WIDTH, cleared |-> size,
          write_offset |-> (current_offset + aligned_size + HEADER_SIZE) % SIZE_WIDTH]

AllocateWide ==
    ArenaStep(
        /\ Len(regions) < MaxAllocs
        /\ \A t \in Writers : writers[t].pc = "idle"
        /\ arena.write_offset <= IPC_BUFFER_SIZE
        /\ \E size \in WideSizes :
           \E r \in {ipc_arena_allocate(arena.write_offset, size)} :
              /\ arena' = [arena EXCEPT
                     !.write_offset = r.write_offset,
                     !.buffer = IF r.ptr = 0 THEN @
                                ELSE StoreCell(@,
                                    [offset |-> arena.write_offset, magic |-> IPC_MAGIC,
                                     length |-> r.length,
                                     checksum |-> XXH32(Payload("0", size), IPC_MAGIC),
                                     flags |-> 0, payload |-> Payload("0", size)]),
                     !.overrun = @ \/ (r.ptr # 0 /\ r.ptr + r.cleared > IPC_BUFFER_SIZE)]
              /\ regions' = Append(regions,
                     [by |-> "w1", ptr |-> r.ptr, offset |-> arena.write_offset,
                      size |-> size, aligned_size |-> r.aligned_size,
                      changed |-> arena' # arena, filled |-> FALSE])
              /\ UNCHANGED <<writers, reads>>)

WideNext == AllocateWide \/ ReadMessage

WideSpec == Init /\ [][WideNext]_vars

\* size rounded up to a multiple of 16, without wrapping
RoundUp16(size) == ((size + 15) \div 16) * 16

(* C34: a call of ipc_arena_allocate that returns a pointer was asked for a
   size whose 16 header bytes and rounded payload fit between the offset it
   found and the end of the buffer, sizes near SIZE_MAX included, and the
   length word of its header is the size asked for. *)
C34_SizeArithmeticSafe ==
    \A k \in Handed :
        /\ regions[k].offset + HEADER_SIZE + RoundUp16(regions[k].size)
               <= IPC_BUFFER_SIZE
        /\ CellAt(regions[k].offset).length = regions[k].size
           \/ \E j \in Handed : j > k /\ regions[j].offset = regions[k].offset

----------------------------------------------------------------------------
(* Registration by two threads *)

RegisterFns == {"reavix_use", "reavix_register_plugin", "reavix_route"}

\* A plugin with an init function
InitPlugin ==
    [name |-> "init", init |-> "init", pre_handler |-> NULL, post_handler |-> NULL]

\* What the caller passes
RegisterArg(fn) ==
    CASE fn = "reavix_use" -> "m1"
      [] fn = "reavix_register_plugin" -> InitPlugin
      [] OTHER -> NULL

\* reavix_route: every path unlocks before it returns and none calls the
\* handler it is given
reavix_route_steps(outcome) ==
    CASE outcome = "full" -> <<"lock", "unlock", "return">>
      [] outcome = "duplicate" -> <<"lock", "scan", "unlock", "return">>
      [] outcome = "insert_failed" -> <<"lock", "scan", "store", "insert", "unlock", "return">>
      [] OTHER -> <<"lock", "scan", "store", "insert", "unlock", "return">>

RouteOutcomes == {"full", "duplicate", "insert_failed", "added"}

\* The rest of reavix_use / reavix_register_plugin once the count has been
\* compared with the maximum, which happens before the mutex is taken
after_check(fn, arg) ==
    IF fn = "reavix_use"
    THEN IF Len(middleware) >= MAX_MIDDLEWARE THEN <<"return">>
         ELSE <<"lock", "store", "unlock", "return">>
    ELSE IF Len(plugins) >= MAX_PLUGINS THEN <<"return">>
         ELSE IF arg.init # NULL
              THEN <<"lock", "store", "init", "unlock", "return">>
              ELSE <<"lock", "store", "unlock", "return">>

\* A thread calls one of the registration functions
begin_register(t, fn, outcome) ==
    /\ threads[t].fn = "none"
    /\ threads' = [threads EXCEPT ![t] =
           [fn |-> fn, arg |-> RegisterArg(fn),
            steps |-> IF fn = "reavix_route" THEN reavix_route_steps(outcome)
                      ELSE <<"check">>,
            trace |-> <<>>]]
    /\ UNCHANGED <<mutex, middleware, plugins, fault>>

\* The thread's next step. The store is list[count++] = arg; with the count
\* at the maximum it lands past the array, on the fields that follow it in
\* reavix_state: the count may come out one over the maximum, or the state
\* is overwritten (fault).
register_step(t) ==
    /\ threads[t].fn \in RegisterFns
    /\ threads[t].steps # <<>>
    /\ \E step \in {Head(threads[t].steps)}, fn \in {threads[t].fn} :
       \E count \in {IF fn = "reavix_use" THEN Len(middleware) ELSE Len(plugins)},
          max \in {IF fn = "reavix_use" THEN MAX_MIDDLEWARE ELSE MAX_PLUGINS} :
       \E stores \in {step = "store" /\ fn # "reavix_route"} :
       \E overwritten \in IF stores /\ count >= max THEN BOOLEAN ELSE {FALSE} :
          /\ step = "lock" => mutex = NULL
          /\ mutex' = CASE step = "lock" -> t
                        [] step = "unlock" -> NULL
                        [] OTHER -> mutex
          /\ middleware' = IF stores /\ fn = "reavix_use" /\ ~overwritten
                           THEN Append(middleware, threads[t].arg) ELSE middleware
          /\ plugins' = IF stores /\ fn = "reavix_register_plugin" /\ ~overwritten
                        THEN Append(plugins, threads[t].arg) ELSE plugins
          /\ fault' = (fault \/ overwritten)
          /\ threads' = [threads EXCEPT
                 ![t].steps = IF step = "check" THEN after_check(fn, threads[t].arg)
                              ELSE Tail(@),
                 ![t].trace = Append(@, [step |-> step, held |-> mutex' = t,
                                         at |-> IF stores THEN count ELSE 0,
                                         max |-> IF stores THEN max ELSE 1])]

RegisterStep(A) ==
    /\ pc = "idle"
    /\ ~fault
    /\ A
    /\ UNCHANGED <<routes, route_count, route_capacity, root_node, alloc_failed, last,
                   clients, client_capacity, linked, sdk, request_vars, ipc_vars,
                   view, callers>>

BeginRegister ==
    RegisterStep(\E t \in Threads, fn \in RegisterFns :
                    \E outcome \in IF fn = "reavix_route" THEN RouteOutcomes ELSE {"added"} :
                       begin_register(t, fn, outcome))
StepRegister == RegisterStep(\E t \in Threads : register_step(t))
EndRegister == RegisterStep(\E t \in Threads : end_dispatch(t) /\ UNCHANGED <<middleware, plugins, fault>>)

RegisterNext == BeginRegister \/ StepRegister \/ EndRegister

RegisterSpec == Init /\ [][RegisterNext]_vars

(* C35: with threads registering concurrently the plugin list never holds
   more than MAX_PLUGINS entries and the middleware list never more than
   MAX_MIDDLEWARE, and every store of a registration goes to a slot inside
   its array, also when two threads register with one slot left. *)
C35_ListsBounded ==
    /\ Len(plugins) <= MAX_PLUGINS
    /\ Len(middleware) <= MAX_MIDDLEWARE
    /\ \A t \in Threads :
          \A i \in 1..Len(threads[t].trace) :
              threads[t].trace[i].step = "store" =>
                  threads[t].trace[i].at < threads[t].trace[i].max

\* The steps that invoke a function the application supplied
UserCallbacks == {"init", "handler", "middleware"}

(* C36: no function supplied by the application runs while the router mutex
   is held: a plugin's init is called by reavix_register_plugin after the
   mutex is released, and reavix_route calls nothing of the application's. *)
C36_NoCallbackUnderLock ==
    \A t \in Threads :
        threads[t].fn \in RegisterFns =>
            \A i \in 1..Len(threads[t].trace) :
                threads[t].trace[i].step \in UserCallbacks => ~threads[t].trace[i].held

----------------------------------------------------------------------------
(* Pairing of request and response on the spin channel *)

\* The callers that have seen the response word set and decode the region
Decoding == {c \in Callers : callers[c] = "op_decode"}

(* C37: a readDir call decodes the response region only after the native
   side has answered that call's own request, and whenever the lock word is
   0 the request-ready and response-ready words are 0 too, so that the next
   call cannot return on a flag the previous call left set. *)
C37_ResponsePaired ==
    /\ \A c \in Decoding : view.answered = c
    /\ view.lock = 0 => (view.request = 0 /\ view.response = 0)

----------------------------------------------------------------------------
(* Header lines longer than the header buffer *)

Twice(s) == s \o s

\* A header value of 2048 bytes
LongValue == Twice(Twice(Twice(Twice(Twice(Twice(Twice(Twice("xxxxxxxx"))))))))

SetLongHeaderCall ==
    /\ Len(res.headers) < MaxHeaders
    /\ \E value \in {"7", LongValue} :
          ApiCall("res_set_header", res_set_header(res, "X-Tag", value), <<>>)

LongHeaderNext ==
    \/ Connect \/ NewResponseCall \/ SetStatusCall \/ SetLongHeaderCall
    \/ WriteCall \/ SendResponseCall

LongHeaderSpec == Init /\ [][LongHeaderNext]_vars

\* The snprintf calls of send_response, line after line: the length so far
\* at which each one writes and the size it is given, sizeof(headers) -
\* headers_len in size_t
RECURSIVE SizesPassed(_, _)
SizesPassed(lines, headers_len) ==
    IF lines = <<>> THEN <<>>
    ELSE <<[headers_len |-> headers_len,
            size |-> (HEADER_BUF - headers_len) % SIZE_WIDTH]>>
         \o SizesPassed(Tail(lines), headers_len + PartsLen(Head(lines)))

(* C38: when send_response formats a response, the running header length
   never exceeds 4096, every formatting call is given the remaining
   capacity 4096 - headers_len without underflow, and the byte count of the
   header write handed to uv_write is at most 4096. *)
C38_HeaderLengthBounded ==
    (last.op = "send_response" /\ last.written > 0) =>
        /\ last.frames[1].len <= HEADER_BUF
        /\ \E sizes \in {SizesPassed(HeadLines(last.before), 0)} :
              \A i \in 1..Len(sizes) :
                  /\ sizes[i].headers_len <= HEADER_BUF
                  /\ sizes[i].size = HEADER_BUF - sizes[i].headers_len

----------------------------------------------------------------------------
(* The browser SDK's WebSocketClient: reconnecting *)

maxDelay == 30000

RECURSIVE Pow(_, _)
Pow(b, e) == IF e = 0 THEN 1 ELSE b * Pow(b, e - 1)

Min(a, b) == IF a < b THEN a ELSE b

\* scheduleReconnect(): nothing while reconnectTimeout is set; else the
\* delay is computed, reconnectAttempts counted up and the timer started
scheduleReconnect(s) ==
    IF s.reconnectTimeout # 0 \/ s.config.delay = 0 \/ s.config.backoffFactor = 0
    THEN s
    ELSE [s EXCEPT !.delay = Min(s.config.delay
                                   * Pow(s.config.backoffFactor, s.reconnectAttempts),
                                 maxDelay),
                   !.reconnectAttempts = @ + 1,
                   !.reconnectTimeout = 1,
                   !.timer = TRUE]

\* disconnect(): clearTimeout on the timer, whose id stays in
\* reconnectTimeout (`this.reconnectTimeout;` assigns nothing); the handlers
\* are taken off the socket, the socket closed and dropped
disconnect(s) ==
    [s EXCEPT !.timer = IF s.reconnectTimeout # 0 THEN FALSE ELSE @,
              !.socket = "null"]

\* connect(): the socket in hand is disconnected, a new one created
connect(s) ==
    [(IF s.socket # "null" THEN disconnect(s) ELSE s) EXCEPT
        !.socket = "connecting", !.due = FALSE]

\* socket.onopen
onopen(s) ==
    [s EXCEPT !.socket = "open", !.reconnectAttempts = 0,
              !.reconnectTimeout = 0, !.timer = FALSE]

\* The most attempts onclose allows: maxAttempts || 5
AttemptLimit(s) ==
    IF s.config.maxAttempts = 0 THEN DefaultMaxAttempts ELSE s.config.maxAttempts

\* socket.onclose, the socket having closed without disconnect()
onclose(s) ==
    LET allowed == s.config.enabled /\ s.reconnectAttempts < AttemptLimit(s)
        closed == [s EXCEPT !.socket = "closed", !.due = allowed]
    IN IF allowed THEN scheduleReconnect(closed) ELSE closed

\* updateConfig(newConfig) with a wsURL and reconnect options
updateConfig(s, newConfig) ==
    LET merged == [s EXCEPT !.config.wsURL = newConfig.wsURL,
                            !.config.delay = newConfig.delay]
    IN IF merged.config.wsURL # s.config.wsURL THEN connect(merged) ELSE merged

SdkStep(A) ==
    /\ pc = "idle"
    /\ A
    /\ UNCHANGED <<routes, route_count, route_capacity, root_node, fault, alloc_failed,
                   registry_vars, linked, request_vars, ipc_vars, sync_vars>>

SocketOpens ==
    SdkStep(/\ sdk.socket = "connecting"
            /\ sdk' = onopen(sdk)
            /\ last' = [op |-> "onopen", before |-> sdk])

SocketCloses ==
    SdkStep(/\ sdk.socket \in {"connecting", "open"}
            /\ sdk' = onclose(sdk)
            /\ last' = [op |-> "onclose", before |-> sdk])

\* The reconnect timer fires: connect()
TimerFires ==
    SdkStep(/\ sdk.timer
            /\ sdk' = connect([sdk EXCEPT !.timer = FALSE])
            /\ last' = [op |-> "timer", before |-> sdk])

Urls == {"ws://a", "ws://b"}
Delays == {DefaultDelay, 20000}

UpdateConfig ==
    SdkStep(\E u \in Urls, d \in Delays :
               /\ sdk' = updateConfig(sdk, [wsURL |-> u, delay |-> d])
               /\ sdk' # sdk
               /\ last' = [op |-> "updateConfig", before |-> sdk])

----------------------------------------------------------------------------
(* The browser SDK's WebSocketClient: subscriptions *)

MaxSubscriptions == 2   \* the most handlers subscribed at a time

\* Event names and patterns, character by character
NameAB == <<"a", ".", "b">>
NameAC == <<"a", ".", "c">>
PatternA == <<"a", ".", "*">>
Heartbeat == <<"__heartbeat__">>

Callbacks == {"f", "g"}

\* pattern.includes("*")
IsPattern(pattern) == \E i \in 1..Len(pattern) : pattern[i] = "*"

\* new RegExp(`^${pattern.replace(/\*/g, ".*")}$`).test(name): a "*"
\* stands for any run of characters, a "." for any one character
RECURSIVE RegExpTest(_, _)
RegExpTest(pattern, name) ==
    IF pattern = <<>> THEN name = <<>>
    ELSE IF Head(pattern) = "*"
    THEN \E k \in 0..Len(name) :
            RegExpTest(Tail(pattern), SubSeq(name, k + 1, Len(name)))
    ELSE /\ name # <<>>
         /\ Head(pattern) = "." \/ Head(pattern) = Head(name)
         /\ RegExpTest(Tail(pattern), Tail(name))

\* this.eventHandlers.has(name): the index of the entry, 0 when there is none
EntryOf(map, name) ==
    IF \E i \in 1..Len(map) : map[i].name = name
    THEN CHOOSE i \in 1..Len(map) : map[i].name = name
    ELSE 0

\* on(eventName, callback, options): the handler is pushed on the name's list
on(map, eventName, callback, once) ==
    LET handler == [callback |-> callback, once |-> once, onceCalled |-> FALSE]
        with == IF EntryOf(map, eventName) = 0
                THEN Append(map, [name |-> eventName, handlers |-> <<>>]) ELSE map
    IN [with EXCEPT ![EntryOf(with, eventName)].handlers = Append(@, handler)]

\* off(eventName, callback): the name's handlers with that callback go;
\* off(eventName), callback NULL: the entry goes
off(map, eventName, callback) ==
    LET i == EntryOf(map, eventName)
        Other(h) == h.callback # callback
        NotThis(e) == e.name # eventName
    IN IF i = 0 THEN map
       ELSE IF callback # NULL
       THEN [map EXCEPT ![i].handlers = SelectSeq(@, Other)]
       ELSE SelectSeq(map, NotThis)

\* The handlers handleIncomingMessage collects for an event name, as
\* <<entry, position>> pairs: those under the name itself, then those of
\* every pattern that matches, in the map's order
Collected(map, eventName) ==
    LET Of(i) == [k \in 1..Len(map[i].handlers) |-> <<i, k>>]
        exact == IF EntryOf(map, eventName) = 0 THEN <<>>
                 ELSE Of(EntryOf(map, eventName))
        ByPattern(i) == IF IsPattern(map[i].name) /\ RegExpTest(map[i].name, eventName)
                        THEN Of(i) ELSE <<>>
    IN exact \o Flatten([i \in 1..Len(map) |-> ByPattern(i)])

\* handlers.forEach of handleIncomingMessage without the branch on
\* options.once: every collected handler's callback is called
CallEach(map, collected) ==
    [k \in 1..Len(collected) |-> map[collected[k][1]].handlers[collected[k][2]].callback]

\* handlers.forEach of handleIncomingMessage: a `once` handler is marked
\* onceCalled, any other handler's callback is called; the callbacks called
CallHandlers(map, collected) ==
    LET h(k) == map[collected[k][1]].handlers[collected[k][2]]
    IN Flatten([k \in 1..Len(collected) |->
                  IF h(k).once THEN <<>> ELSE <<h(k).callback>>])

\* The map after the forEach and the clean-up: the collected `once` handlers
\* are marked, and every handler both `once` and marked is filtered out
CleanedUp(map, collected) ==
    LET hit == {collected[k] : k \in 1..Len(collected)}
        marked == [i \in 1..Len(map) |->
                     [map[i] EXCEPT !.handlers =
                         [k \in 1..Len(map[i].handlers) |->
                             IF <<i, k>> \in hit /\ map[i].handlers[k].once
                             THEN [map[i].handlers[k] EXCEPT !.onceCalled = TRUE]
                             ELSE map[i].handlers[k]]]]
        Remains(h) == ~(h.once /\ h.onceCalled)
    IN [i \in 1..Len(marked) |->
           [marked[i] EXCEPT !.handlers = SelectSeq(@, Remains)]]

\* handleIncomingMessage for a message that parses and, with no event
\* definitions registered, validates
handleIncomingMessage(map, eventName) ==
    IF eventName = Heartbeat THEN [map |-> map, called |-> <<>>]
    ELSE [map |-> CleanedUp(map, Collected(map, eventName)),
          called |-> CallHandlers(map, Collected(map, eventName))]

Subscribed(map) == Len(Flatten([i \in 1..Len(map) |-> map[i].handlers]))

On ==
    SdkStep(/\ Subscribed(sdk.eventHandlers) < MaxSubscriptions
            /\ \E name \in {NameAB, PatternA}, callback \in Callbacks, once \in BOOLEAN :
                  /\ sdk' = [sdk EXCEPT !.eventHandlers = on(@, name, callback, once)]
                  /\ last' = [op |-> "on", before |-> sdk])

Off ==
    SdkStep(\E name \in {NameAB, PatternA}, callback \in Callbacks \cup {NULL} :
               /\ sdk' = [sdk EXCEPT !.eventHandlers = off(@, name, callback)]
               /\ sdk' # sdk
               /\ last' = [op |-> "off", before |-> sdk])

\* A message arrives on the open socket
IncomingMessage ==
    SdkStep(/\ sdk.socket = "open"
            /\ \E eventName \in {NameAB, NameAC, Heartbeat} :
               \E r \in {handleIncomingMessage(sdk.eventHandlers, eventName)} :
                  /\ sdk' = [sdk EXCEPT !.eventHandlers = r.map]
                  /\ last' = [op |-> "handleIncomingMessage", before |-> sdk,
                              event |-> eventName, called |-> r.called])

SdkNext ==
    \/ SocketOpens \/ SocketCloses \/ TimerFires \/ UpdateConfig
    \/ On \/ Off \/ IncomingMessage

SdkSpec == Init /\ [][SdkNext]_vars

\* The timer fires once started, and a socket that is connecting or open
\* opens or closes in the end
SdkFairness == WF_vars(TimerFires) /\ WF_vars(SocketOpens \/ SocketCloses)

SdkLiveSpec == Init /\ [][SdkNext]_vars /\ SdkFairness

(* C39: with reconnect enabled, whenever the socket has closed unexpectedly
   with fewer than maxAttempts attempts made, a reconnect attempt is
   eventually performed, also after an attempt that failed; the delay last
   scheduled is min(delay * backoffFactor^attempt, 30000), the attempt
   counter never exceeds maxAttempts, and it is 0 while the socket is open. *)
C39_Reconnects ==
    /\ [](sdk.reconnectAttempts <= AttemptLimit(sdk))
    /\ [](sdk.socket = "open" => sdk.reconnectAttempts = 0)
    /\ [](sdk.delay <= maxDelay)
    /\ sdk.due ~> (sdk.socket = "connecting")

\* The matching handlers of a message, each callback once, in the order
\* handleIncomingMessage collects them
Matching(map, eventName) == CallEach(map, Collected(map, eventName))

(* C40: for every incoming message other than a heartbeat, the callback of
   each handler whose name or pattern matches the event is invoked once,
   `once` handlers included; afterwards the matching `once` handlers are
   gone from the map and every other handler is still subscribed. *)
C40_HandlersInvoked ==
    (last.op = "handleIncomingMessage" /\ last.event # Heartbeat) =>
        /\ last.called = Matching(last.before.eventHandlers, last.event)
        /\ \A i \in 1..Len(sdk.eventHandlers) :
              \A k \in 1..Len(sdk.eventHandlers[i].handlers) :
                  ~sdk.eventHandlers[i].handlers[k].onceCalled

====
